---- MODULE Spec2Model ----
(***************************************************************************)
(* The mock API of the wealth-management demo: the fixture store and the   *)
(* msw request handlers over it (src/unnamed/part_000).                    *)
(*                                                                         *)
(* JavaScript strings are TLA+ strings.  A value of type `string | null`   *)
(* is a record [null, str].  A JavaScript number is a record               *)
(* [kind, neg, int, frac]: kind is "num", "NaN" or "undefined", and a      *)
(* "num" is the exact decimal  (-1)^neg * int.frac  with int free of       *)
(* leading zeros and frac free of trailing zeros, so that numbers of any   *)
(* size (market capitalisations exceed 2^31) compare exactly.              *)
(***************************************************************************)
EXTENDS Integers, Sequences, FiniteSets, TLC

-----------------------------------------------------------------------------
(* Bounds of the model. *)

\* the largest number of parameters drawn freely in one /api/stocks query
MaxParams == 3
\* the largest number of records of a store drawn from the sample records
MaxStoreLen == 2
\* the largest number of requests settled since a response was kept that is counted
MaxBetween == 2
\* the number of requests in flight at the same time
MaxInFlight == 2
\* the largest number of parameters of the queries that are split into parts
MaxComposed == 3
\* the largest number of filters of the stocks page that differ from their default
MaxEdited == 2

-----------------------------------------------------------------------------
(* string | null *)

Null == [null |-> TRUE, str |-> ""]
Str(s) == [null |-> FALSE, str |-> s]

\* a ?? b  for a string-or-null a
Coalesce(v, d) == IF v.null THEN d ELSE v.str

-----------------------------------------------------------------------------
(* String.prototype operations *)

CharAt(s, i) == SubSeq(s, i, i)

UpperCaseLetters ==
    "A" :> "a" @@ "B" :> "b" @@ "C" :> "c" @@ "D" :> "d" @@ "E" :> "e" @@
    "F" :> "f" @@ "G" :> "g" @@ "H" :> "h" @@ "I" :> "i" @@ "J" :> "j" @@
    "K" :> "k" @@ "L" :> "l" @@ "M" :> "m" @@ "N" :> "n" @@ "O" :> "o" @@
    "P" :> "p" @@ "Q" :> "q" @@ "R" :> "r" @@ "S" :> "s" @@ "T" :> "t" @@
    "U" :> "u" @@ "V" :> "v" @@ "W" :> "w" @@ "X" :> "x" @@ "Y" :> "y" @@
    "Z" :> "z"

LowerChar(c) == IF c \in DOMAIN UpperCaseLetters THEN UpperCaseLetters[c] ELSE c

RECURSIVE toLowerCase(_)
toLowerCase(s) ==
    IF s = "" THEN ""
    ELSE LowerChar(CharAt(s, 1)) \o toLowerCase(SubSeq(s, 2, Len(s)))

\* haystack.includes(needle)
includes(haystack, needle) ==
    \E i \in 0..(Len(haystack) - Len(needle)) :
        SubSeq(haystack, i + 1, i + Len(needle)) = needle

WhiteSpace == {" "}

RECURSIVE trimStart(_)
trimStart(s) ==
    IF s # "" /\ CharAt(s, 1) \in WhiteSpace
    THEN trimStart(SubSeq(s, 2, Len(s)))
    ELSE s

RECURSIVE trimEnd(_)
trimEnd(s) ==
    IF s # "" /\ CharAt(s, Len(s)) \in WhiteSpace
    THEN trimEnd(SubSeq(s, 1, Len(s) - 1))
    ELSE s

trim(s) == trimEnd(trimStart(s))

-----------------------------------------------------------------------------
(* Numbers *)

Digits == {"0", "1", "2", "3", "4", "5", "6", "7", "8", "9"}

DigitValue ==
    "0" :> 0 @@ "1" :> 1 @@ "2" :> 2 @@ "3" :> 3 @@ "4" :> 4 @@
    "5" :> 5 @@ "6" :> 6 @@ "7" :> 7 @@ "8" :> 8 @@ "9" :> 9

Undefined == [kind |-> "undefined", neg |-> FALSE, int |-> "", frac |-> ""]
NaN == [kind |-> "NaN", neg |-> FALSE, int |-> "", frac |-> ""]

AllDigits(s) == \A i \in 1..Len(s) : CharAt(s, i) \in Digits

RECURSIVE StripLeadingZeros(_)
StripLeadingZeros(s) ==
    IF s # "" /\ CharAt(s, 1) = "0"
    THEN StripLeadingZeros(SubSeq(s, 2, Len(s)))
    ELSE s

RECURSIVE StripTrailingZeros(_)
StripTrailingZeros(s) ==
    IF s # "" /\ CharAt(s, Len(s)) = "0"
    THEN StripTrailingZeros(SubSeq(s, 1, Len(s) - 1))
    ELSE s

\* the number with the given sign, integer digits and fraction digits
Decimal(neg, ip, fp) ==
    LET i == StripLeadingZeros(ip)
        f == StripTrailingZeros(fp)
    IN  [kind |-> "num", neg |-> neg /\ ~(i = "" /\ f = ""), int |-> i, frac |-> f]

\* StrUnsignedDecimalLiteral: digits, digits "." [digits], "." digits
UnsignedDecimal(neg, body) ==
    LET dots == {i \in 1..Len(body) : CharAt(body, i) = "."}
    IN  IF dots = {}
        THEN IF body # "" /\ AllDigits(body) THEN Decimal(neg, body, "") ELSE NaN
        ELSE IF Cardinality(dots) = 1
        THEN LET d == CHOOSE i \in dots : TRUE
                 ip == SubSeq(body, 1, d - 1)
                 fp == SubSeq(body, d + 1, Len(body))
             IN  IF AllDigits(ip) /\ AllDigits(fp) /\ (ip # "" \/ fp # "")
                 THEN Decimal(neg, ip, fp)
                 ELSE NaN
        ELSE NaN

\* Number(value) for a string: StringToNumber on the characters the model's
\* inputs are written in (digits, ".", "+", "-", white space, letters that
\* start no numeric literal)
Number(value) ==
    LET t == trim(value)
    IN  IF t = "" THEN Decimal(FALSE, "", "")
        ELSE IF CharAt(t, 1) = "-" THEN UnsignedDecimal(TRUE, SubSeq(t, 2, Len(t)))
        ELSE IF CharAt(t, 1) = "+" THEN UnsignedDecimal(FALSE, SubSeq(t, 2, Len(t)))
        ELSE UnsignedDecimal(FALSE, t)

\* a numeric literal of the source text
Num(literal) == Number(literal)

\* -1, 0, 1 as digit string a is below, equal to, above digit string b,
\* position by position from the left; a missing digit counts as 0
RECURSIVE CompareDigits(_, _)
CompareDigits(a, b) ==
    IF a = "" /\ b = "" THEN 0
    ELSE LET x == IF a = "" THEN 0 ELSE DigitValue[CharAt(a, 1)]
             y == IF b = "" THEN 0 ELSE DigitValue[CharAt(b, 1)]
         IN  IF x < y THEN -1
             ELSE IF x > y THEN 1
             ELSE CompareDigits(IF a = "" THEN "" ELSE SubSeq(a, 2, Len(a)),
                                IF b = "" THEN "" ELSE SubSeq(b, 2, Len(b)))

CompareMagnitude(a, b) ==
    IF Len(a.int) < Len(b.int) THEN -1
    ELSE IF Len(a.int) > Len(b.int) THEN 1
    ELSE LET c == CompareDigits(a.int, b.int)
         IN  IF c # 0 THEN c ELSE CompareDigits(a.frac, b.frac)

\* the order of two "num" values
Compare(a, b) ==
    IF a.neg /\ ~b.neg THEN -1
    ELSE IF ~a.neg /\ b.neg THEN 1
    ELSE IF a.neg THEN CompareMagnitude(b, a)
    ELSE CompareMagnitude(a, b)

IsNum(a) == a.kind = "num"

\* a < b, a > b, a <= b, a >= b: false when an operand is NaN
Less(a, b) == IsNum(a) /\ IsNum(b) /\ Compare(a, b) < 0
Greater(a, b) == IsNum(a) /\ IsNum(b) /\ Compare(a, b) > 0
LessEq(a, b) == IsNum(a) /\ IsNum(b) /\ Compare(a, b) <= 0
GreaterEq(a, b) == IsNum(a) /\ IsNum(b) /\ Compare(a, b) >= 0

\* String(n) for a "num" n
NumberToString(n) ==
    (IF n.neg THEN "-" ELSE "")
        \o (IF n.int = "" THEN "0" ELSE n.int)
        \o (IF n.frac = "" THEN "" ELSE "." \o n.frac)

-----------------------------------------------------------------------------
(* The fixture store *)

StockFixture == <<
    [ id |-> "stk-001", ticker |-> "ALNA", company |-> "Aluna Energy", sector |-> "Energy", price |-> Num("84.12"), changePercent |-> Num("1.84"), volume |-> Num("5230000"), marketCap |-> Num("24800000000"), rating |-> "Buy", lastUpdated |-> "2026-02-11T14:12:00Z" ],
    [ id |-> "stk-002", ticker |-> "BLFD", company |-> "Bluefield Cloud", sector |-> "Technology", price |-> Num("142.75"), changePercent |-> Num("-0.62"), volume |-> Num("8120000"), marketCap |-> Num("91800000000"), rating |-> "Hold", lastUpdated |-> "2026-02-11T14:09:00Z" ],
    [ id |-> "stk-003", ticker |-> "CSTL", company |-> "Coastal Materials", sector |-> "Industrials", price |-> Num("58.44"), changePercent |-> Num("0.31"), volume |-> Num("1830000"), marketCap |-> Num("11200000000"), rating |-> "Hold", lastUpdated |-> "2026-02-11T14:05:00Z" ],
    [ id |-> "stk-004", ticker |-> "DLWN", company |-> "Dawn Foods", sector |-> "Consumer Staples", price |-> Num("39.9"), changePercent |-> Num("-1.12"), volume |-> Num("2260000"), marketCap |-> Num("7600000000"), rating |-> "Buy", lastUpdated |-> "2026-02-11T14:08:00Z" ],
    [ id |-> "stk-005", ticker |-> "ECHO", company |-> "Echo Mobility", sector |-> "Consumer Discretionary", price |-> Num("27.63"), changePercent |-> Num("2.21"), volume |-> Num("6410000"), marketCap |-> Num("9800000000"), rating |-> "Buy", lastUpdated |-> "2026-02-11T14:11:00Z" ],
    [ id |-> "stk-006", ticker |-> "FLXR", company |-> "Flux Robotics", sector |-> "Technology", price |-> Num("212.4"), changePercent |-> Num("3.05"), volume |-> Num("4320000"), marketCap |-> Num("156000000000"), rating |-> "Buy", lastUpdated |-> "2026-02-11T14:10:00Z" ],
    [ id |-> "stk-007", ticker |-> "GNRD", company |-> "Greenridge Utilities", sector |-> "Utilities", price |-> Num("62.15"), changePercent |-> Num("-0.18"), volume |-> Num("1960000"), marketCap |-> Num("21400000000"), rating |-> "Hold", lastUpdated |-> "2026-02-11T14:07:00Z" ],
    [ id |-> "stk-008", ticker |-> "HLXR", company |-> "Helix Health", sector |-> "Healthcare", price |-> Num("94.3"), changePercent |-> Num("1.02"), volume |-> Num("3890000"), marketCap |-> Num("48600000000"), rating |-> "Buy", lastUpdated |-> "2026-02-11T14:06:00Z" ],
    [ id |-> "stk-009", ticker |-> "IONA", company |-> "Iona Renewables", sector |-> "Energy", price |-> Num("46.78"), changePercent |-> Num("-2.34"), volume |-> Num("7120000"), marketCap |-> Num("15200000000"), rating |-> "Sell", lastUpdated |-> "2026-02-11T14:09:00Z" ],
    [ id |-> "stk-010", ticker |-> "JUNO", company |-> "Juno Logistics", sector |-> "Industrials", price |-> Num("73.88"), changePercent |-> Num("0.54"), volume |-> Num("2740000"), marketCap |-> Num("18600000000"), rating |-> "Hold", lastUpdated |-> "2026-02-11T14:04:00Z" ],
    [ id |-> "stk-011", ticker |-> "KOVA", company |-> "Kova Financial", sector |-> "Financials", price |-> Num("129.15"), changePercent |-> Num("1.6"), volume |-> Num("5270000"), marketCap |-> Num("68200000000"), rating |-> "Buy", lastUpdated |-> "2026-02-11T14:07:00Z" ],
    [ id |-> "stk-012", ticker |-> "LUMA", company |-> "Luma Semiconductors", sector |-> "Technology", price |-> Num("311.02"), changePercent |-> Num("-1.45"), volume |-> Num("6110000"), marketCap |-> Num("234000000000"), rating |-> "Hold", lastUpdated |-> "2026-02-11T14:03:00Z" ],
    [ id |-> "stk-013", ticker |-> "MARN", company |-> "Mariner Apparel", sector |-> "Consumer Discretionary", price |-> Num("33.67"), changePercent |-> Num("0.22"), volume |-> Num("1650000"), marketCap |-> Num("5100000000"), rating |-> "Hold", lastUpdated |-> "2026-02-11T14:11:00Z" ],
    [ id |-> "stk-014", ticker |-> "NOVA", company |-> "Nova MedTech", sector |-> "Healthcare", price |-> Num("118.2"), changePercent |-> Num("2.7"), volume |-> Num("3470000"), marketCap |-> Num("72200000000"), rating |-> "Buy", lastUpdated |-> "2026-02-11T14:02:00Z" ],
    [ id |-> "stk-015", ticker |-> "ORBT", company |-> "Orbit Streaming", sector |-> "Communication Services", price |-> Num("51.96"), changePercent |-> Num("-0.4"), volume |-> Num("2890000"), marketCap |-> Num("19400000000"), rating |-> "Hold", lastUpdated |-> "2026-02-11T14:12:00Z" ],
    [ id |-> "stk-016", ticker |-> "PRSM", company |-> "Prism Retail", sector |-> "Consumer Discretionary", price |-> Num("64.38"), changePercent |-> Num("-1.8"), volume |-> Num("4780000"), marketCap |-> Num("22100000000"), rating |-> "Sell", lastUpdated |-> "2026-02-11T14:06:00Z" ],
    [ id |-> "stk-017", ticker |-> "QUAY", company |-> "Quay Hospitality", sector |-> "Consumer Discretionary", price |-> Num("22.75"), changePercent |-> Num("1.14"), volume |-> Num("1320000"), marketCap |-> Num("3900000000"), rating |-> "Hold", lastUpdated |-> "2026-02-11T14:04:00Z" ],
    [ id |-> "stk-018", ticker |-> "RIVR", company |-> "Riverline Shipping", sector |-> "Industrials", price |-> Num("41.22"), changePercent |-> Num("0.08"), volume |-> Num("2030000"), marketCap |-> Num("8400000000"), rating |-> "Hold", lastUpdated |-> "2026-02-11T14:08:00Z" ],
    [ id |-> "stk-019", ticker |-> "SOLR", company |-> "Solara Power", sector |-> "Utilities", price |-> Num("76.54"), changePercent |-> Num("1.36"), volume |-> Num("2190000"), marketCap |-> Num("26800000000"), rating |-> "Buy", lastUpdated |-> "2026-02-11T14:12:00Z" ],
    [ id |-> "stk-020", ticker |-> "TRMN", company |-> "Truman Insurance", sector |-> "Financials", price |-> Num("92.41"), changePercent |-> Num("-0.98"), volume |-> Num("2410000"), marketCap |-> Num("35600000000"), rating |-> "Hold", lastUpdated |-> "2026-02-11T14:10:00Z" ],
    [ id |-> "stk-021", ticker |-> "URSA", company |-> "Ursa Defense", sector |-> "Industrials", price |-> Num("158.9"), changePercent |-> Num("2.48"), volume |-> Num("4180000"), marketCap |-> Num("104000000000"), rating |-> "Buy", lastUpdated |-> "2026-02-11T14:03:00Z" ],
    [ id |-> "stk-022", ticker |-> "VTRN", company |-> "Vitorra Biotech", sector |-> "Healthcare", price |-> Num("67.19"), changePercent |-> Num("-0.22"), volume |-> Num("2950000"), marketCap |-> Num("18900000000"), rating |-> "Hold", lastUpdated |-> "2026-02-11T14:05:00Z" ],
    [ id |-> "stk-023", ticker |-> "WISP", company |-> "Wisp Wireless", sector |-> "Communication Services", price |-> Num("39.04"), changePercent |-> Num("0.9"), volume |-> Num("3770000"), marketCap |-> Num("14200000000"), rating |-> "Buy", lastUpdated |-> "2026-02-11T14:09:00Z" ],
    [ id |-> "stk-024", ticker |-> "XENO", company |-> "Xeno Materials", sector |-> "Materials", price |-> Num("55.67"), changePercent |-> Num("-0.74"), volume |-> Num("2080000"), marketCap |-> Num("12600000000"), rating |-> "Hold", lastUpdated |-> "2026-02-11T14:01:00Z" ],
    [ id |-> "stk-025", ticker |-> "YARA", company |-> "Yara AgriTech", sector |-> "Materials", price |-> Num("47.32"), changePercent |-> Num("1.12"), volume |-> Num("1890000"), marketCap |-> Num("9800000000"), rating |-> "Buy", lastUpdated |-> "2026-02-11T14:06:00Z" ],
    [ id |-> "stk-026", ticker |-> "ZEND", company |-> "Zendara Software", sector |-> "Technology", price |-> Num("188.56"), changePercent |-> Num("0.44"), volume |-> Num("5210000"), marketCap |-> Num("112000000000"), rating |-> "Buy", lastUpdated |-> "2026-02-11T14:12:00Z" ],
    [ id |-> "stk-027", ticker |-> "AURM", company |-> "Auram Luxury", sector |-> "Consumer Discretionary", price |-> Num("96.21"), changePercent |-> Num("-2.16"), volume |-> Num("1580000"), marketCap |-> Num("27400000000"), rating |-> "Sell", lastUpdated |-> "2026-02-11T14:02:00Z" ],
    [ id |-> "stk-028", ticker |-> "BLOM", company |-> "Bloom Home", sector |-> "Consumer Discretionary", price |-> Num("44.73"), changePercent |-> Num("0.67"), volume |-> Num("2210000"), marketCap |-> Num("9800000000"), rating |-> "Hold", lastUpdated |-> "2026-02-11T14:07:00Z" ],
    [ id |-> "stk-029", ticker |-> "CLAR", company |-> "Clarity Payments", sector |-> "Financials", price |-> Num("112.28"), changePercent |-> Num("1.24"), volume |-> Num("3980000"), marketCap |-> Num("52100000000"), rating |-> "Buy", lastUpdated |-> "2026-02-11T14:08:00Z" ],
    [ id |-> "stk-030", ticker |-> "DRFT", company |-> "Drift Travel", sector |-> "Consumer Discretionary", price |-> Num("24.08"), changePercent |-> Num("-0.36"), volume |-> Num("1670000"), marketCap |-> Num("6200000000"), rating |-> "Hold", lastUpdated |-> "2026-02-11T14:04:00Z" ]
>>

BondFixture == <<
    [ id |-> "bond-001", name |-> "Aurora Transit 2036", issuer |-> "Aurora Transit Authority", rating |-> "AA", coupon |-> Num("3.75"), maturity |-> "2036-09-15", yieldToMaturity |-> Num("4.18"), duration |-> Num("8.4"), price |-> Num("98.62"), currency |-> "USD", nextCall |-> Str("2031-09-15"), sector |-> "Municipal", size |-> Num("1200000000"), lastTraded |-> "2026-02-11T13:58:00Z" ],
    [ id |-> "bond-002", name |-> "Northbridge Health 2031", issuer |-> "Northbridge Health Group", rating |-> "BBB", coupon |-> Num("5.25"), maturity |-> "2031-03-01", yieldToMaturity |-> Num("5.48"), duration |-> Num("4.9"), price |-> Num("101.05"), currency |-> "USD", nextCall |-> Null, sector |-> "Healthcare", size |-> Num("850000000"), lastTraded |-> "2026-02-11T13:52:00Z" ],
    [ id |-> "bond-003", name |-> "Solara Grid 2040", issuer |-> "Solara Power Holdings", rating |-> "A", coupon |-> Num("4.4"), maturity |-> "2040-11-30", yieldToMaturity |-> Num("4.86"), duration |-> Num("10.6"), price |-> Num("96.4"), currency |-> "USD", nextCall |-> Str("2035-11-30"), sector |-> "Utilities", size |-> Num("1500000000"), lastTraded |-> "2026-02-11T14:02:00Z" ],
    [ id |-> "bond-004", name |-> "Meridian Ports 2029", issuer |-> "Meridian Ports & Logistics", rating |-> "BB", coupon |-> Num("6.1"), maturity |-> "2029-07-15", yieldToMaturity |-> Num("6.45"), duration |-> Num("3.1"), price |-> Num("99.24"), currency |-> "USD", nextCall |-> Null, sector |-> "Industrials", size |-> Num("420000000"), lastTraded |-> "2026-02-11T13:48:00Z" ],
    [ id |-> "bond-005", name |-> "Lumen Fiber 2038", issuer |-> "Lumen Fiber Networks", rating |-> "A", coupon |-> Num("4.95"), maturity |-> "2038-05-01", yieldToMaturity |-> Num("5.12"), duration |-> Num("9.3"), price |-> Num("97.88"), currency |-> "EUR", nextCall |-> Str("2034-05-01"), sector |-> "Communications", size |-> Num("960000000"), lastTraded |-> "2026-02-11T13:55:00Z" ]
>>

ServiceBriefFixture ==
    [ clientName        |-> "Alexandra Chen",
      email             |-> "alexandra.chen@meridian.capital",
      firm              |-> "Meridian Capital Partners",
      portfolioSize     |-> Num("12500000"),
      mandateType       |-> "discretionary",
      riskProfile       |-> "moderate",
      investmentHorizon |-> "long",
      assetClass        |-> "equities",
      instrument        |-> "inst-eq-003",
      notes             |-> "ESG-focused allocation preferred. Avoid fossil fuel exposure." ]

InstrumentFixture ==
    [ equities |-> <<
        [ id |-> "inst-eq-001", name |-> "Global Equity Fund", ticker |-> "GLEQ" ],
        [ id |-> "inst-eq-002", name |-> "US Large Cap Growth", ticker |-> "USLCG" ],
        [ id |-> "inst-eq-003", name |-> "Emerging Markets Fund", ticker |-> "EMMK" ],
        [ id |-> "inst-eq-004", name |-> "Tech Innovation ETF", ticker |-> "TCHIN" ],
        [ id |-> "inst-eq-005", name |-> "Dividend Aristocrats", ticker |-> "DVAR" ] >> ]
    @@ ("fixed-income" :> <<
        [ id |-> "inst-fi-001", name |-> "Global Aggregate Bond", ticker |-> "GLAG" ],
        [ id |-> "inst-fi-002", name |-> "US Treasury Fund", ticker |-> "USTF" ],
        [ id |-> "inst-fi-003", name |-> "Investment Grade Corp", ticker |-> "IGCF" ],
        [ id |-> "inst-fi-004", name |-> "High Yield Bond ETF", ticker |-> "HYLD" ],
        [ id |-> "inst-fi-005", name |-> "Municipal Bond Fund", ticker |-> "MUBF" ] >>)
    @@ [ alternatives |-> <<
        [ id |-> "inst-alt-001", name |-> "Private Equity Fund", ticker |-> "PEFD" ],
        [ id |-> "inst-alt-002", name |-> "Real Estate Trust", ticker |-> "RRET" ],
        [ id |-> "inst-alt-003", name |-> "Commodities Basket", ticker |-> "CMBT" ],
        [ id |-> "inst-alt-004", name |-> "Hedge Fund Strategies", ticker |-> "HDGE" ],
        [ id |-> "inst-alt-005", name |-> "Infrastructure Fund", ticker |-> "INFR" ] >> ]
    @@ ("multi-asset" :> <<
        [ id |-> "inst-ma-001", name |-> "Balanced Growth Fund", ticker |-> "BALG" ],
        [ id |-> "inst-ma-002", name |-> "Target Date 2050", ticker |-> "TD50" ],
        [ id |-> "inst-ma-003", name |-> "Risk Parity Fund", ticker |-> "RSKP" ],
        [ id |-> "inst-ma-004", name |-> "Global Allocation", ticker |-> "GLAL" ],
        [ id |-> "inst-ma-005", name |-> "Dynamic Income", ticker |-> "DINC" ] >>)

\* Array.from(new Set(xs)): the distinct values in first-occurrence order
RECURSIVE ArrayFromSet(_)
ArrayFromSet(xs) ==
    IF xs = <<>> THEN <<>>
    ELSE LET front == ArrayFromSet(SubSeq(xs, 1, Len(xs) - 1))
             last == xs[Len(xs)]
         IN  IF \E i \in 1..Len(front) : front[i] = last
             THEN front
             ELSE Append(front, last)

\* stocks.map((stock) => stock.sector)
SectorsOf(stockList) == [i \in 1..Len(stockList) |-> stockList[i].sector]

\* const sectors = Array.from(new Set(stocks.map((stock) => stock.sector)))
DeriveSectors(stockList) == ArrayFromSet(SectorsOf(stockList))

-----------------------------------------------------------------------------
(* The state *)

VARIABLES
    stocks,     \* the stock collection of the module
    sectors,    \* the sector list derived from it when the module loads
    bonds,      \* the bond collection of the module
    serviceBrief,               \* the one service brief of the module
    instrumentsByAssetClass,    \* the instrument lists of the module, by key
    pc,         \* where the one request is: "idle", "delay", "route", "done"
    request,    \* the request being served
    response,   \* the response to it
    earlier,    \* a request answered before and the response the caller kept
    flights,    \* the requests in flight at the same time, one per slot
    filters,    \* StocksPage: the state of useState<Filters>
    queryKey,   \* StocksPage: the filters of the query that was fetched last
    form,       \* ServicesPage: the values and the default values of useForm
    briefData,  \* ServicesPage: briefQuery.data.data
    instrumentsData,  \* ServicesPage: instrumentsQuery.data
    queries,    \* ServicesPage: "stale", "fetching" or "fresh", per query
    effectPending,    \* ServicesPage: a render is committed, its effect not yet run
    lastDeps,   \* ServicesPage: the dependencies the effect ran with last
    typed       \* ServicesPage: the field and value the user entered last

vars == <<stocks, sectors, bonds, serviceBrief, instrumentsByAssetClass,
          pc, request, response, earlier, flights, filters, queryKey,
          form, briefData, instrumentsData, queries, effectPending, lastDeps, typed>>

store == <<stocks, sectors, bonds, serviceBrief, instrumentsByAssetClass>>

\* the state of the pages
stocksPage == <<filters, queryKey>>
servicesPage ==
    <<form, briefData, instrumentsData, queries, effectPending, lastDeps, typed>>
pages == <<stocksPage, servicesPage>>

\* what the one-request actions leave alone
aside == <<earlier, flights, pages>>

NoQuery == [k \in {} |-> ""]
NoRequest == [route |-> "", query |-> NoQuery, id |-> ""]
NoBody == [data |-> <<>>, meta |-> [total |-> 0, sectors |-> <<>>]]
NoResponse == [status |-> 0, hasBody |-> FALSE, body |-> NoBody]

\* HttpResponse.json(body)
HttpResponseJson(body) == [status |-> 200, hasBody |-> TRUE, body |-> body]
\* new HttpResponse(null, { status })
HttpResponseEmpty(status) == [status |-> status, hasBody |-> FALSE, body |-> NoBody]

-----------------------------------------------------------------------------
(* GET /api/stocks *)

ParamNames ==
    {"search", "sector", "rating", "change", "minPrice", "maxPrice", "minCap", "maxCap"}

\* url.searchParams.get(name)
SearchParamsGet(query, name) ==
    IF name \in DOMAIN query THEN Str(query[name]) ELSE Null

\* parseNumber without the trim: a blank string reaches Number and reads as 0
parseNumberNoTrim(value) ==
    IF value.null \/ value.str = "" THEN Undefined ELSE Number(value.str)

parseNumber(value) ==
    IF value.null \/ trim(value.str) = "" THEN Undefined ELSE Number(value.str)

\* the search term taken as typed, not lower-cased
SearchTermAsTyped(query) == Coalesce(SearchParamsGet(query, "search"), "")

\* url.searchParams.get('search')?.toLowerCase() ?? ''
SearchTerm(query) ==
    LET v == SearchParamsGet(query, "search")
    IN  Coalesce(IF v.null THEN Null ELSE Str(toLowerCase(v.str)), "")

\* the reading with || in place of ??: an empty sector or rating is the default
ReadFiltersEmptyAsDefault(query) ==
    LET OrElse(v, d) == IF v.null \/ v.str = "" THEN d ELSE v.str
    IN  [ search   |-> SearchTerm(query),
          sector   |-> OrElse(SearchParamsGet(query, "sector"), "All"),
          rating   |-> OrElse(SearchParamsGet(query, "rating"), "All"),
          change   |-> Coalesce(SearchParamsGet(query, "change"), "any"),
          minPrice |-> parseNumber(SearchParamsGet(query, "minPrice")),
          maxPrice |-> parseNumber(SearchParamsGet(query, "maxPrice")),
          minCap   |-> parseNumber(SearchParamsGet(query, "minCap")),
          maxCap   |-> parseNumber(SearchParamsGet(query, "maxCap")) ]

\* the reading of the query parameters
ReadFilters(query) ==
    [ search   |-> SearchTerm(query),
      sector   |-> Coalesce(SearchParamsGet(query, "sector"), "All"),
      rating   |-> Coalesce(SearchParamsGet(query, "rating"), "All"),
      change   |-> Coalesce(SearchParamsGet(query, "change"), "any"),
      minPrice |-> parseNumber(SearchParamsGet(query, "minPrice")),
      maxPrice |-> parseNumber(SearchParamsGet(query, "maxPrice")),
      minCap   |-> parseNumber(SearchParamsGet(query, "minCap")),
      maxCap   |-> parseNumber(SearchParamsGet(query, "maxCap")) ]

Zero == Num("0")

\* if (search) { ... if (!haystack.includes(search)) return false }
PassesSearch(stock, f) ==
    f.search = "" \/ includes(toLowerCase(stock.ticker \o " " \o stock.company), f.search)

\* the sector compared without regard to letter case
PassesSectorIgnoringCase(stock, f) ==
    ~(f.sector # "All" /\ toLowerCase(stock.sector) # toLowerCase(f.sector))

\* if (sector !== 'All' && stock.sector !== sector) return false
PassesSector(stock, f) == ~(f.sector # "All" /\ stock.sector # f.sector)

\* the rating filter left out whenever a search term is given
PassesRatingUnlessSearching(stock, f) ==
    f.search # "" \/ ~(f.rating # "All" /\ stock.rating # f.rating)

\* if (rating !== 'All' && stock.rating !== rating) return false
PassesRating(stock, f) == ~(f.rating # "All" /\ stock.rating # f.rating)

\* the change tests with every value other than any, positive and negative
\* rejecting all records
PassesChangeUnknownRejects(stock, f) ==
    /\ f.change \in {"any", "positive", "negative"}
    /\ ~(f.change = "positive" /\ LessEq(stock.changePercent, Zero))
    /\ ~(f.change = "negative" /\ GreaterEq(stock.changePercent, Zero))

\* the change tests with < and > in place of <= and >=: 0 passes both
PassesChangeZeroIncluded(stock, f) ==
    /\ ~(f.change = "positive" /\ Less(stock.changePercent, Zero))
    /\ ~(f.change = "negative" /\ Greater(stock.changePercent, Zero))

\* if (change === 'positive' && stock.changePercent <= 0) return false
\* if (change === 'negative' && stock.changePercent >= 0) return false
PassesChange(stock, f) ==
    /\ ~(f.change = "positive" /\ LessEq(stock.changePercent, Zero))
    /\ ~(f.change = "negative" /\ GreaterEq(stock.changePercent, Zero))

\* the price tests with the two bounds put in order first
PassesPriceSwapped(stock, f) ==
    LET swap == f.minPrice # Undefined /\ f.maxPrice # Undefined
                /\ Greater(f.minPrice, f.maxPrice)
        lo == IF swap THEN f.maxPrice ELSE f.minPrice
        hi == IF swap THEN f.minPrice ELSE f.maxPrice
    IN  /\ ~(lo # Undefined /\ Less(stock.price, lo))
        /\ ~(hi # Undefined /\ Greater(stock.price, hi))

\* the price tests with <= and >= in place of < and >: the bounds exclude
PassesPriceExclusive(stock, f) ==
    /\ ~(f.minPrice # Undefined /\ LessEq(stock.price, f.minPrice))
    /\ ~(f.maxPrice # Undefined /\ GreaterEq(stock.price, f.maxPrice))

\* if (minPrice !== undefined && stock.price < minPrice) return false
\* if (maxPrice !== undefined && stock.price > maxPrice) return false
PassesPrice(stock, f) ==
    /\ ~(f.minPrice # Undefined /\ Less(stock.price, f.minPrice))
    /\ ~(f.maxPrice # Undefined /\ Greater(stock.price, f.maxPrice))

\* if (minCap !== undefined && stock.marketCap < minCap) return false
\* if (maxCap !== undefined && stock.marketCap > maxCap) return false
PassesCap(stock, f) ==
    /\ ~(f.minCap # Undefined /\ Less(stock.marketCap, f.minCap))
    /\ ~(f.maxCap # Undefined /\ Greater(stock.marketCap, f.maxCap))

\* the callback with the sector and rating tests joined by "or"
StockFilterSectorOrRating(stock, f) ==
    /\ PassesSearch(stock, f)
    /\ (PassesSector(stock, f) \/ PassesRating(stock, f))
    /\ PassesChange(stock, f)
    /\ PassesPrice(stock, f)
    /\ PassesCap(stock, f)

\* the callback of stocks.filter: true unless a test returns false
StockFilter(stock, f) ==
    /\ PassesSearch(stock, f)
    /\ PassesSector(stock, f)
    /\ PassesRating(stock, f)
    /\ PassesChange(stock, f)
    /\ PassesPrice(stock, f)
    /\ PassesCap(stock, f)

\* the filter followed by a cut to a first page of ten
FilterStocksFirstPage(stockList, f) ==
    LET all == SelectSeq(stockList, LAMBDA stock : StockFilter(stock, f))
    IN  SubSeq(all, 1, IF Len(all) < 10 THEN Len(all) ELSE 10)

\* stocks.filter(callback)
FilterStocks(stockList, f) == SelectSeq(stockList, LAMBDA stock : StockFilter(stock, f))

\* the sectors of the filtered records only
MetaSectorsOfResult(sectorList, filtered) == DeriveSectors(filtered)

\* the total as the size of the store
MetaTotalOfStore(stockList, filtered) == Len(stockList)

\* the sectors the response carries
MetaSectors(sectorList, filtered) == sectorList

\* the total the response carries
MetaTotal(stockList, filtered) == Len(filtered)

\* the handler of http.get('/api/stocks')
StocksHandler(stockList, sectorList, query) ==
    LET filtered == FilterStocks(stockList, ReadFilters(query))
    IN  HttpResponseJson(
            [ data |-> filtered,
              meta |-> [ total   |-> MetaTotal(stockList, filtered),
                         sectors |-> MetaSectors(sectorList, filtered) ] ])

-----------------------------------------------------------------------------
(* GET /api/bonds/:id *)

\* the identifier matched as a prefix
BondMatchesPrefix(item, id) ==
    /\ Len(id) <= Len(item.id)
    /\ SubSeq(item.id, 1, Len(id)) = id

\* the callback of bonds.find
BondMatches(item, id) == item.id = id

\* the handler with the maturity standing in for a missing call date
BondDetailHandlerCallOrMaturity(bondList, id) ==
    LET hits == {i \in 1..Len(bondList) : BondMatches(bondList[i], id)}
    IN  IF hits = {}
        THEN HttpResponseEmpty(404)
        ELSE LET first == CHOOSE i \in hits : \A j \in hits : i <= j
                 bond == bondList[first]
             IN  HttpResponseJson(
                     [data |-> [bond EXCEPT !.nextCall =
                                    IF bond.nextCall.null THEN Str(bond.maturity) ELSE @]])

\* the handler of http.get('/api/bonds/:id')
BondDetailHandler(bondList, id) ==
    LET hits == {i \in 1..Len(bondList) : BondMatches(bondList[i], id)}
    IN  IF hits = {}
        THEN HttpResponseEmpty(404)
        ELSE LET first == CHOOSE i \in hits : \A j \in hits : i <= j
             IN  HttpResponseJson([data |-> bondList[first]])

-----------------------------------------------------------------------------
(* GET /api/bonds *)

\* the handler answering with the whole records
BondsHandlerWholeRecords(bondList) ==
    HttpResponseJson([data |-> bondList, meta |-> [total |-> Len(bondList)]])

\* the handler listing the callable bonds only
BondsHandlerCallableOnly(bondList) ==
    LET callable == SelectSeq(bondList, LAMBDA b : ~b.nextCall.null)
        options == [i \in 1..Len(callable) |->
                       [ id     |-> callable[i].id,
                         name   |-> callable[i].name,
                         issuer |-> callable[i].issuer,
                         rating |-> callable[i].rating ]]
    IN  HttpResponseJson([data |-> options, meta |-> [total |-> Len(options)]])

\* the handler of http.get('/api/bonds'): it reads nothing of the request
BondsHandler(bondList) ==
    LET options == [i \in 1..Len(bondList) |->
                       [ id     |-> bondList[i].id,
                         name   |-> bondList[i].name,
                         issuer |-> bondList[i].issuer,
                         rating |-> bondList[i].rating ]]
    IN  HttpResponseJson([data |-> options, meta |-> [total |-> Len(options)]])

-----------------------------------------------------------------------------
(* GET /api/services/brief *)

\* the handler of http.get('/api/services/brief')
BriefHandler(brief) == HttpResponseJson([data |-> brief])

-----------------------------------------------------------------------------
(* GET /api/services/instruments *)

\* the function-valued properties every object literal inherits from
\* Object.prototype (the accessor __proto__ is not among the keys drawn)
ObjectPrototypeNames ==
    {"constructor", "toString", "toLocaleString", "valueOf", "hasOwnProperty",
     "isPrototypeOf", "propertyIsEnumerable", "__defineGetter__", "__defineSetter__",
     "__lookupGetter__", "__lookupSetter__"}

\* object[key]: an own property, else one inherited, else undefined
PropertyGet(object, key) ==
    IF key \in DOMAIN object THEN [kind |-> "array", items |-> object[key]]
    ELSE IF key \in ObjectPrototypeNames THEN [kind |-> "function", items |-> <<>>]
    ELSE [kind |-> "undefined", items |-> <<>>]

\* the truth value of a looked-up property
Truthy(v) == v.kind # "undefined"

\* the JSON text {}
EmptyObject == [k \in {} |-> <<>>]

\* JSON.stringify({ data: v }): a property whose value is a function is left out
JsonOfData(v) == IF v.kind = "function" THEN EmptyObject ELSE [data |-> v.items]

\* the handler answering any known key with the equities
InstrumentsHandlerAlwaysEquities(byClass, query) ==
    LET assetClass == SearchParamsGet(query, "assetClass")
    IN  IF assetClass.null \/ assetClass.str = ""
               \/ ~Truthy(PropertyGet(byClass, assetClass.str))
        THEN HttpResponseJson([data |-> <<>>])
        ELSE HttpResponseJson(JsonOfData(PropertyGet(byClass, "equities")))

\* the handler answering an unknown key the way the bond lookup does
InstrumentsHandlerNotFound(byClass, query) ==
    LET assetClass == SearchParamsGet(query, "assetClass")
    IN  IF assetClass.null \/ assetClass.str = ""
               \/ ~Truthy(PropertyGet(byClass, assetClass.str))
        THEN HttpResponseEmpty(404)
        ELSE HttpResponseJson(JsonOfData(PropertyGet(byClass, assetClass.str)))

\* the handler of http.get('/api/services/instruments')
InstrumentsHandler(byClass, query) ==
    LET assetClass == SearchParamsGet(query, "assetClass")
    IN  IF assetClass.null \/ assetClass.str = ""
               \/ ~Truthy(PropertyGet(byClass, assetClass.str))
        THEN HttpResponseJson([data |-> <<>>])
        ELSE HttpResponseJson(JsonOfData(PropertyGet(byClass, assetClass.str)))

-----------------------------------------------------------------------------
(* The store after a handler has run *)

\* the array with its first record shifted out
ArrayShifted(stockList) == Tail(stockList)

\* the array reversed in place
ArrayReversed(stockList) == [i \in 1..Len(stockList) |-> stockList[Len(stockList) + 1 - i]]

\* stocks after stocks.filter(...): filter builds a new array and leaves
\* the one it is called on as it is
StocksAfterFilter(stockList) == stockList

-----------------------------------------------------------------------------
(* The requests the model issues *)

\* the values a parameter of a /api/stocks query is drawn from
ParamValues ==
    [ search   |-> {"", "zend", "ZeNd", "ND Ze", "energy"},
      sector   |-> {"All", "Energy", "energy", ""},
      rating   |-> {"All", "Buy", "buy", "Sell", ""},
      change   |-> {"any", "positive", "negative", "up", "Positive", ""},
      minPrice |-> {" ", "8a", "84.12", "100."},
      maxPrice |-> {"", " ", "84.12", "100."},
      minCap   |-> {"", "9800000000", "24800000000"},
      maxCap   |-> {"1.2.3", "9800000000", "24800000000"} ]

\* the two values per parameter of the queries that carry all eight
FullValues ==
    [ search   |-> {"", "e"},
      sector   |-> {"All", "Technology"},
      rating   |-> {"All", "Buy"},
      change   |-> {"any", "positive"},
      minPrice |-> {"", "84.12"},
      maxPrice |-> {" ", "200"},
      minCap   |-> {"x", "9800000000"},
      maxCap   |-> {"", "200000000000"} ]

\* the queries over the parameters `names` with values drawn from `values`
RECURSIVE QueriesOver(_, _)
QueriesOver(names, values) ==
    IF names = {} THEN {NoQuery}
    ELSE LET k == CHOOSE n \in names : TRUE
         IN  {q @@ (k :> v) : q \in QueriesOver(names \ {k}, values), v \in values[k]}

\* queries of at most MaxParams parameters
SparseQueries ==
    UNION {QueriesOver(names, ParamValues) :
             names \in {n \in SUBSET ParamNames : Cardinality(n) <= MaxParams}}

FullQueries == QueriesOver(ParamNames, FullValues)

\* queries whose bounds are the exact price or market cap of a record
BoundaryQueries(stockList) ==
    UNION {
        LET p == NumberToString(stockList[i].price)
            c == NumberToString(stockList[i].marketCap)
        IN  { "minPrice" :> p, "maxPrice" :> p, "minCap" :> c, "maxCap" :> c,
              "minPrice" :> p @@ "maxPrice" :> p, "minCap" :> c @@ "maxCap" :> c }
        : i \in 1..Len(stockList) }

StockQueries(stockList) == SparseQueries \cup FullQueries \cup BoundaryQueries(stockList)

BondIds ==
    {"bond-001", "bond-002", "bond-003", "bond-004", "bond-005",
     "does-not-exist", "bond-00", "bond-0011", "BOND-001", "Bond-003", "003"}

\* the queries put to /api/bonds, which takes no parameter
BondListQueries ==
    {NoQuery, "rating" :> "AA", "id" :> "bond-001", "search" :> "Aurora", "issuer" :> ""}

\* the asset-class keys asked for; as many of them a key of no list
AssetClassKeys ==
    {"equities", "fixed-income", "alternatives", "multi-asset",
     "", "not-a-class", "undefined", "Equities", "fixed", "constructor", "toString"}

\* the queries put to /api/services/instruments
InstrumentQueries == {NoQuery} \cup {"assetClass" :> k : k \in AssetClassKeys}

\* no request answered before
NoEarlier == [request |-> NoRequest, response |-> NoResponse, between |-> 0]

\* a slot with no request in flight
NoFlight == [pc |-> "idle", request |-> NoRequest, response |-> NoResponse]

-----------------------------------------------------------------------------
(* The actions *)

\* the module loaded with a stocks array that repeats the first identifier
\* and spells the second ticker in lower case
InitStoreRepeatedId ==
    /\ stocks = [StockFixture EXCEPT ![2].id = "stk-001", ![2].ticker = "blfd"]
    /\ sectors = DeriveSectors(stocks)
    /\ bonds = BondFixture
    /\ serviceBrief = ServiceBriefFixture
    /\ instrumentsByAssetClass = InstrumentFixture

\* const defaultFilters
defaultFilters ==
    [ search |-> "", sector |-> "All", rating |-> "All", change |-> "any",
      minPrice |-> "", maxPrice |-> "", minCap |-> "", maxCap |-> "" ]

\* no query fetched yet
NoKey == [k \in {} |-> ""]

\* the fields of the services form that the model follows
FormFields == {"clientName", "email", "firm", "portfolioSize", "assetClass"}

\* useForm({ defaultValues }) of ServicesPage.tsx
defaultValues ==
    [ clientName |-> Str(""), email |-> Str(""), firm |-> Str(""),
      portfolioSize |-> Str("0"), assetClass |-> Null ]

\* useForm({ defaultValues }) of the page with the dependency list
defaultValuesWithDeps == [defaultValues EXCEPT !.email = Null]

\* nothing entered by the user
NoTyped == [field |-> "", value |-> ""]

\* the services page as mounted: first render committed, both queries to fetch
InitServicesPage ==
    /\ form = [values |-> defaultValues, defaults |-> defaultValues]
    /\ briefData = EmptyObject
    /\ instrumentsData = [loaded |-> FALSE, data |-> <<>>]
    /\ queries = [brief |-> "stale", instruments |-> "stale"]
    /\ effectPending = TRUE
    /\ lastDeps = [ran |-> FALSE, data |-> EmptyObject]
    /\ typed = NoTyped

\* the pages as mounted
InitPages ==
    /\ filters = defaultFilters
    /\ queryKey = NoKey
    /\ InitServicesPage

InitStore ==
    /\ stocks = StockFixture
    /\ sectors = DeriveSectors(stocks)
    /\ bonds = BondFixture
    /\ serviceBrief = ServiceBriefFixture
    /\ instrumentsByAssetClass = InstrumentFixture

Init ==
    /\ InitStore
    /\ pc = "idle"
    /\ request = NoRequest
    /\ response = NoResponse
    /\ earlier = NoEarlier
    /\ InitPages
    /\ flights = <<>>

\* fetch(`/api/stocks?${params}`)
RequestStocks ==
    /\ pc = "idle"
    /\ \E q \in StockQueries(stocks) :
           request' = [route |-> "/api/stocks", query |-> q, id |-> ""]
    /\ pc' = "delay"
    /\ UNCHANGED <<store, response, aside>>

\* fetch(`/api/bonds/${bondId}`)
RequestBondDetail ==
    /\ pc = "idle"
    /\ \E id \in BondIds :
           request' = [route |-> "/api/bonds/:id", query |-> NoQuery, id |-> id]
    /\ pc' = "delay"
    /\ UNCHANGED <<store, response, aside>>

\* fetch('/api/bonds')
RequestBonds ==
    /\ pc = "idle"
    /\ \E q \in BondListQueries :
           request' = [route |-> "/api/bonds", query |-> q, id |-> ""]
    /\ pc' = "delay"
    /\ UNCHANGED <<store, response, aside>>

\* fetch('/api/services/brief')
RequestBrief ==
    /\ pc = "idle"
    /\ request' = [route |-> "/api/services/brief", query |-> NoQuery, id |-> ""]
    /\ pc' = "delay"
    /\ UNCHANGED <<store, response, aside>>

\* fetch(`/api/services/instruments?assetClass=${assetClass}`)
RequestInstruments ==
    /\ pc = "idle"
    /\ \E q \in InstrumentQueries :
           request' = [route |-> "/api/services/instruments", query |-> q, id |-> ""]
    /\ pc' = "delay"
    /\ UNCHANGED <<store, response, aside>>

\* the catch-all handler answering by itself after the wait
DelayAnswers ==
    /\ pc = "delay"
    /\ pc' = "done"
    /\ response' = HttpResponseEmpty(200)
    /\ UNCHANGED <<store, request, aside>>

\* the wait that never ends
DelayNeverEnds ==
    /\ pc = "delay"
    /\ UNCHANGED vars

\* http.all('*'): waits and resolves nothing, the next matching handler answers
Delay ==
    /\ pc = "delay"
    /\ pc' = "route"
    /\ UNCHANGED <<store, request, response, aside>>

HandleStocks ==
    /\ pc = "route"
    /\ request.route = "/api/stocks"
    /\ response' = StocksHandler(stocks, sectors, request.query)
    /\ stocks' = StocksAfterFilter(stocks)
    /\ pc' = "done"
    /\ UNCHANGED <<sectors, bonds, serviceBrief, instrumentsByAssetClass, request, aside>>

HandleBondDetail ==
    /\ pc = "route"
    /\ request.route = "/api/bonds/:id"
    /\ response' = BondDetailHandler(bonds, request.id)
    /\ pc' = "done"
    /\ UNCHANGED <<store, request, aside>>

HandleBonds ==
    /\ pc = "route"
    /\ request.route = "/api/bonds"
    /\ response' = BondsHandler(bonds)
    /\ pc' = "done"
    /\ UNCHANGED <<store, request, aside>>

HandleBrief ==
    /\ pc = "route"
    /\ request.route = "/api/services/brief"
    /\ response' = BriefHandler(serviceBrief)
    /\ pc' = "done"
    /\ UNCHANGED <<store, request, aside>>

HandleInstruments ==
    /\ pc = "route"
    /\ request.route = "/api/services/instruments"
    /\ response' = InstrumentsHandler(instrumentsByAssetClass, request.query)
    /\ pc' = "done"
    /\ UNCHANGED <<store, request, aside>>

\* the caller has read the response
Settle ==
    /\ pc = "done"
    /\ pc' = "idle"
    /\ request' = NoRequest
    /\ response' = NoResponse
    /\ UNCHANGED <<store, aside>>

Next ==
    \/ RequestStocks
    \/ RequestBonds
    \/ RequestBondDetail
    \/ RequestBrief
    \/ RequestInstruments
    \/ Delay
    \/ HandleStocks
    \/ HandleBonds
    \/ HandleBondDetail
    \/ HandleBrief
    \/ HandleInstruments
    \/ Settle

Spec == Init /\ [][Next]_vars

\* the timer of delay(1000) fires and msw then runs the matching handler
SpecLive ==
    /\ Spec
    /\ WF_vars(Delay)
    /\ WF_vars(HandleStocks \/ HandleBonds \/ HandleBondDetail \/ HandleBrief
                  \/ HandleInstruments)

-----------------------------------------------------------------------------
(* A caller that keeps a /api/stocks response and asks again later *)

\* the stock queries that are asked again
RepeatQueries == {q \in SparseQueries : DOMAIN q \subseteq {"search", "change"}}

RequestStocksAgain ==
    /\ pc = "idle"
    /\ \E q \in RepeatQueries :
           request' = [route |-> "/api/stocks", query |-> q, id |-> ""]
    /\ pc' = "delay"
    /\ UNCHANGED <<store, response, aside>>

\* the caller keeps the response to a stock query
KeepResponse ==
    /\ pc = "done"
    /\ request.route = "/api/stocks"
    /\ earlier.request # request
    /\ earlier' = [request |-> request, response |-> response, between |-> 0]
    /\ UNCHANGED <<store, pc, request, response, flights, pages>>

\* the caller has read the response; the requests since the kept one are counted
SettleCounting ==
    /\ pc = "done"
    /\ pc' = "idle"
    /\ request' = NoRequest
    /\ response' = NoResponse
    /\ earlier' = IF earlier = NoEarlier \/ earlier.between >= MaxBetween
                   THEN earlier
                   ELSE [earlier EXCEPT !.between = @ + 1]
    /\ UNCHANGED <<store, flights, pages>>

NextRepeat ==
    \/ RequestStocksAgain
    \/ RequestBonds
    \/ RequestBondDetail
    \/ RequestBrief
    \/ RequestInstruments
    \/ Delay
    \/ HandleStocks
    \/ HandleBonds
    \/ HandleBondDetail
    \/ HandleBrief
    \/ HandleInstruments
    \/ KeepResponse
    \/ SettleCounting

SpecRepeat == Init /\ [][NextRepeat]_vars

-----------------------------------------------------------------------------
(* A caller of /api/stocks that joins filters, each of them one that drops  *)
(* some records and keeps others                                            *)

\* two filtering values per parameter
ComposeValues ==
    [ search   |-> {"en", "O"},
      sector   |-> {"Energy", "Technology"},
      rating   |-> {"Buy", "Hold"},
      change   |-> {"positive", "negative"},
      minPrice |-> {"40", "84.12"},
      maxPrice |-> {"100.", "250"},
      minCap   |-> {"9800000000", "24800000000"},
      maxCap   |-> {"24800000000", "91800000000"} ]

\* the queries of at most MaxComposed filtering parameters
ComposeQueries ==
    UNION {QueriesOver(names, ComposeValues) :
             names \in {n \in SUBSET ParamNames : Cardinality(n) <= MaxComposed}}

RequestStocksComposed ==
    /\ pc = "idle"
    /\ \E q \in ComposeQueries :
           request' = [route |-> "/api/stocks", query |-> q, id |-> ""]
    /\ pc' = "delay"
    /\ UNCHANGED <<store, response, aside>>

NextCompose ==
    \/ RequestStocksComposed
    \/ Delay
    \/ HandleStocks
    \/ Settle

SpecCompose == Init /\ [][NextCompose]_vars

-----------------------------------------------------------------------------
(* StocksPage: the filters form, fetchStocks and the URL between them *)

\* the order in which fetchStocks sets the parameters
ParamOrder ==
    <<"search", "sector", "rating", "change", "minPrice", "maxPrice", "minCap", "maxCap">>

\* the bytes application/x-www-form-urlencoded writes as %XX, among the
\* characters the page's values are made of; a space is written as +, and
\* letters, digits and * - . _ are written as they are
PercentCodes ==
    "+" :> "%2B" @@ "&" :> "%26" @@ "=" :> "%3D" @@ "%" :> "%25" @@ "?" :> "%3F"
    @@ "#" :> "%23"

RECURSIVE UrlEncode(_)
UrlEncode(s) ==
    IF s = "" THEN ""
    ELSE LET c == CharAt(s, 1)
             out == IF c = " " THEN "+"
                    ELSE IF c \in DOMAIN PercentCodes THEN PercentCodes[c]
                    ELSE c
         IN  out \o UrlEncode(SubSeq(s, 2, Len(s)))

RECURSIVE UrlDecode(_)
UrlDecode(s) ==
    IF s = "" THEN ""
    ELSE LET c == CharAt(s, 1)
             coded == {x \in DOMAIN PercentCodes :
                         Len(s) >= 3 /\ SubSeq(s, 1, 3) = PercentCodes[x]}
         IN  IF c = "+" THEN " " \o UrlDecode(SubSeq(s, 2, Len(s)))
             ELSE IF c = "%" /\ coded # {}
                  THEN (CHOOSE x \in coded : TRUE) \o UrlDecode(SubSeq(s, 4, Len(s)))
             ELSE c \o UrlDecode(SubSeq(s, 2, Len(s)))

\* the parameters set with 0 taken for an empty bound
fetchStocksParamsZeroIsEmpty(f) ==
    LET sent(k) == CASE k = "search" -> f.search # ""
                     [] k = "sector" -> f.sector # "All"
                     [] k = "rating" -> f.rating # "All"
                     [] k = "change" -> f.change # "any"
                     [] OTHER -> f[k] # "" /\ Number(f[k]) # Zero
        names == SelectSeq(ParamOrder, sent)
    IN  [i \in 1..Len(names) |-> <<names[i], f[names[i]]>>]

\* fetchStocks: the URLSearchParams after the eight conditional params.set
fetchStocksParams(f) ==
    LET sent(k) == CASE k = "search" -> f.search # ""
                     [] k = "sector" -> f.sector # "All"
                     [] k = "rating" -> f.rating # "All"
                     [] k = "change" -> f.change # "any"
                     [] OTHER -> f[k] # ""
        names == SelectSeq(ParamOrder, sent)
    IN  [i \in 1..Len(names) |-> <<names[i], f[names[i]]>>]

\* params.toString()
RECURSIVE ParamsToString(_)
ParamsToString(params) ==
    IF params = <<>> THEN ""
    ELSE UrlEncode(params[1][1]) \o "=" \o UrlEncode(params[1][2])
         \o (IF Len(params) = 1 THEN "" ELSE "&" \o ParamsToString(Tail(params)))

\* the position of the first character c of s, 0 when there is none
IndexOf(s, c) ==
    LET at == {i \in 1..Len(s) : CharAt(s, i) = c}
    IN  IF at = {} THEN 0 ELSE CHOOSE i \in at : \A j \in at : i <= j

\* the pieces of s between the separators c
RECURSIVE Split(_, _)
Split(s, c) ==
    LET i == IndexOf(s, c)
    IN  IF i = 0 THEN <<s>>
        ELSE <<SubSeq(s, 1, i - 1)>> \o Split(SubSeq(s, i + 1, Len(s)), c)

\* the name of the piece name=value
PieceName(p) ==
    LET i == IndexOf(p, "=")
    IN  UrlDecode(IF i = 0 THEN p ELSE SubSeq(p, 1, i - 1))

\* the value of the piece name=value
PieceValue(p) ==
    LET i == IndexOf(p, "=")
    IN  UrlDecode(IF i = 0 THEN "" ELSE SubSeq(p, i + 1, Len(p)))

\* the first piece of the name n
FirstPiece(pieces, n) ==
    CHOOSE i \in 1..Len(pieces) :
        /\ PieceName(pieces[i]) = n
        /\ \A j \in 1..(i - 1) : PieceName(pieces[j]) # n

\* new URL(request.url).searchParams: name to the first value given for it
SearchParamsOf(search) ==
    LET pieces == SelectSeq(Split(search, "&"), LAMBDA p : p # "")
    IN  [n \in {PieceName(pieces[i]) : i \in 1..Len(pieces)} |->
            PieceValue(pieces[FirstPiece(pieces, n)])]

\* the values the inputs of the filters form give: free text, the options of
\* the three selects, and what <input type="number"> yields
FormValues ==
    [ search   |-> {"", "en", "R&D +1=%"},
      sector   |-> {"All", "Energy"},
      rating   |-> {"All", "Buy"},
      change   |-> {"any", "positive", "negative"},
      minPrice |-> {"", "0"},
      maxPrice |-> {"", "100"},
      minCap   |-> {"", "9800000000"},
      maxCap   |-> {"", "24800000000"} ]

\* the filters that differ from their default
Edited(f) == {k \in ParamNames : f[k] # defaultFilters[k]}

\* updateFilter(key, value)
updateFilter ==
    /\ \E key \in ParamNames : \E value \in FormValues[key] :
           /\ value # filters[key]
           /\ Cardinality(Edited([filters EXCEPT ![key] = value])) <= MaxEdited
           /\ filters' = [filters EXCEPT ![key] = value]
    /\ UNCHANGED <<store, pc, request, response, earlier, flights, queryKey, servicesPage>>

\* resetFilters()
resetFilters ==
    /\ filters # defaultFilters
    /\ filters' = defaultFilters
    /\ UNCHANGED <<store, pc, request, response, earlier, flights, queryKey, servicesPage>>

\* useQuery({ queryKey: ['stocks', filters], queryFn: () => fetchStocks(filters) })
QueryStocks ==
    /\ pc = "idle"
    /\ queryKey # filters
    /\ queryKey' = filters
    /\ request' = [route |-> "/api/stocks",
                   query |-> SearchParamsOf(ParamsToString(fetchStocksParams(filters))),
                   id    |-> ""]
    /\ pc' = "delay"
    /\ UNCHANGED <<store, response, earlier, flights, filters, servicesPage>>

NextStocksPage ==
    \/ updateFilter
    \/ resetFilters
    \/ QueryStocks
    \/ Delay
    \/ HandleStocks
    \/ Settle

SpecStocksPage == Init /\ [][NextStocksPage]_vars

-----------------------------------------------------------------------------
(* ServicesPage: the form of react-hook-form, the two queries of            *)
(* react-query and the prefill effect.  React runs the effects of a         *)
(* committed render before it handles the next event or update.             *)

\* the fields read with useWatch: a change of one of them renders the page
WatchedFields == {"assetClass", "clientName", "email"}

\* object.key of a response body, undefined for a key the object lacks
Field(object, key) ==
    IF key \notin DOMAIN object THEN Null
    ELSE IF key = "portfolioSize" THEN Str(NumberToString(object[key]))
    ELSE Str(object[key])

\* `${value}` and String(value)
TemplateString(v) == IF v.null THEN "undefined" ELSE v.str

\* reset(given): the given values become the values and the default values,
\* a field not given is undefined; reset({}) puts the default values back
FormReset(f, given) ==
    IF DOMAIN given = {}
    THEN [values |-> f.defaults, defaults |-> [k \in FormFields |-> Null]]
    ELSE LET all == [k \in FormFields |-> IF k \in DOMAIN given THEN given[k] ELSE Null]
         IN  [values |-> all, defaults |-> all]

\* a watched field differs between two states of the form
Rerenders(f, g) == \E k \in WatchedFields : f.values[k] # g.values[k]

\* the values the prefill effect of ServicesPage.tsx resets the form to
PrefillValues(brief) ==
    [ clientName    |-> Field(brief, "clientName"),
      firm          |-> Field(brief, "firm"),
      portfolioSize |-> Str(TemplateString(Field(brief, "portfolioSize"))) ]

\* the values the prefill effect of the page with the dependency list resets to
PrefillValuesWithDeps(brief) ==
    [ clientName    |-> Field(brief, "clientName"),
      email         |-> Field(brief, "email"),
      firm          |-> Field(brief, "firm"),
      portfolioSize |-> Str(TemplateString(Field(brief, "portfolioSize"))) ]

\* useEffect(() => { if (briefQuery.data?.data) reset({...}) }): no
\* dependency list, so it runs after every render; {} is truthy
PrefillEffect ==
    /\ effectPending
    /\ form' = FormReset(form, PrefillValues(briefData))
    /\ effectPending' = Rerenders(form, form')
    /\ UNCHANGED <<store, pc, request, response, earlier, flights, stocksPage,
                    briefData, instrumentsData, queries, lastDeps, typed>>

\* useEffect(..., [briefQuery.data.data, reset]): it runs after the first
\* render and after a render in which the brief data is another object
PrefillEffectWithDeps ==
    /\ effectPending
    /\ IF ~lastDeps.ran \/ lastDeps.data # briefData
       THEN /\ form' = FormReset(form, PrefillValuesWithDeps(briefData))
            /\ lastDeps' = [ran |-> TRUE, data |-> briefData]
       ELSE UNCHANGED <<form, lastDeps>>
    /\ effectPending' = Rerenders(form, form')
    /\ UNCHANGED <<store, pc, request, response, earlier, flights, stocksPage,
                    briefData, instrumentsData, queries, typed>>

\* what the user enters into the watched fields
EditValues ==
    [ assetClass |-> {"equities", "fixed-income"},
      clientName |-> {"Bo"},
      email      |-> {"bo@x.io"} ]

\* react-query starts the fetch of a stale query from the effects of the
\* render, before the page handles the next event of the user
FetchesStarted == queries.brief # "stale" /\ queries.instruments # "stale"

\* the onChange of a registered field
EditField ==
    /\ ~effectPending
    /\ FetchesStarted
    /\ \E k \in WatchedFields : \E v \in EditValues[k] :
           /\ form.values[k] # Str(v)
           /\ form' = [form EXCEPT !.values[k] = Str(v)]
           /\ typed' = [field |-> k, value |-> v]
    /\ effectPending' = TRUE
    /\ UNCHANGED <<store, pc, request, response, earlier, flights, stocksPage,
                    briefData, instrumentsData, queries, lastDeps>>

\* the Reset button: briefQuery.data && reset(briefQuery.data.data)
ResetButton ==
    /\ ~effectPending
    /\ FetchesStarted
    /\ form' = FormReset(form, [k \in FormFields \cap DOMAIN briefData |->
                                    Field(briefData, k)])
    /\ typed' = NoTyped
    /\ effectPending' = Rerenders(form, form')
    /\ UNCHANGED <<store, pc, request, response, earlier, flights, stocksPage,
                    briefData, instrumentsData, queries, lastDeps>>

\* useQuery({ queryKey: ['service-brief'], queryFn: fetchServiceBrief })
QueryBrief ==
    /\ ~effectPending
    /\ pc = "idle"
    /\ queries.brief = "stale"
    /\ queries' = [queries EXCEPT !.brief = "fetching"]
    /\ request' = [route |-> "/api/services/brief", query |-> NoQuery, id |-> ""]
    /\ pc' = "delay"
    /\ UNCHANGED <<store, response, earlier, flights, stocksPage,
                    form, briefData, instrumentsData, effectPending, lastDeps, typed>>

\* the options of the asset-class select
AssetClassOptions == {"", "equities", "fixed-income", "alternatives", "multi-asset"}

\* the search parameters the handler reads from the URL of fetchInstruments,
\* by the text `${assetClass}` puts into it
InstrumentsSearchParams ==
    [text \in AssetClassOptions \cup {"undefined"} |->
        SearchParamsOf("assetClass=" \o text)]

\* useQuery({ queryKey: ['service-instruments'],
\*            queryFn: () => fetchInstruments(assetClass!) }):
\* the key names no asset class, so only a stale query is fetched
QueryInstruments ==
    /\ ~effectPending
    /\ pc = "idle"
    /\ queries.instruments = "stale"
    /\ queries' = [queries EXCEPT !.instruments = "fetching"]
    /\ request' = [route |-> "/api/services/instruments",
                   query |-> InstrumentsSearchParams[
                                 TemplateString(form.values.assetClass)],
                   id    |-> ""]
    /\ pc' = "delay"
    /\ UNCHANGED <<store, response, earlier, flights, stocksPage,
                    form, briefData, instrumentsData, effectPending, lastDeps, typed>>

\* the brief arrives: briefQuery.data changes and the page renders
ReceiveBrief ==
    /\ ~effectPending
    /\ pc = "done"
    /\ request.route = "/api/services/brief"
    /\ briefData' = response.body.data
    /\ queries' = [queries EXCEPT !.brief = "fresh"]
    /\ typed' = NoTyped
    /\ effectPending' = TRUE
    /\ pc' = "idle"
    /\ request' = NoRequest
    /\ response' = NoResponse
    /\ UNCHANGED <<store, earlier, flights, stocksPage, form, instrumentsData, lastDeps>>

\* the instruments arrive: instrumentsQuery.data changes and the page renders
ReceiveInstruments ==
    /\ ~effectPending
    /\ pc = "done"
    /\ request.route = "/api/services/instruments"
    /\ instrumentsData' = [loaded |-> TRUE,
                           data |-> IF "data" \in DOMAIN response.body
                                    THEN response.body.data ELSE <<>>]
    /\ queries' = [queries EXCEPT !.instruments = "fresh"]
    /\ effectPending' = TRUE
    /\ pc' = "idle"
    /\ request' = NoRequest
    /\ response' = NoResponse
    /\ UNCHANGED <<store, earlier, flights, stocksPage, form, briefData, lastDeps, typed>>

\* the window gets the focus back: with the default staleTime of 0 both
\* queries are stale and fetched again
WindowFocus ==
    /\ ~effectPending
    /\ FetchesStarted
    /\ \E k \in DOMAIN queries : queries[k] = "fresh"
    /\ queries' = [k \in DOMAIN queries |->
                      IF queries[k] = "fresh" THEN "stale" ELSE queries[k]]
    /\ UNCHANGED <<store, pc, request, response, earlier, flights, stocksPage,
                    form, briefData, instrumentsData, effectPending, lastDeps, typed>>

NextServicesPage ==
    \/ PrefillEffect
    \/ EditField
    \/ ResetButton
    \/ QueryBrief
    \/ QueryInstruments
    \/ Delay
    \/ HandleBrief
    \/ HandleInstruments
    \/ ReceiveBrief
    \/ ReceiveInstruments
    \/ WindowFocus

SpecServicesPage == Init /\ [][NextServicesPage]_vars

\* the page with the dependency list as mounted: the brief query has
\* staleTime Infinity, so its initialData is never fetched over
InitWithDeps ==
    /\ InitStore
    /\ pc = "idle"
    /\ request = NoRequest
    /\ response = NoResponse
    /\ earlier = NoEarlier
    /\ flights = <<>>
    /\ filters = defaultFilters
    /\ queryKey = NoKey
    /\ form = [values |-> defaultValuesWithDeps, defaults |-> defaultValuesWithDeps]
    /\ briefData = EmptyObject
    /\ instrumentsData = [loaded |-> FALSE, data |-> <<>>]
    /\ queries = [brief |-> "fresh", instruments |-> "stale"]
    /\ effectPending = TRUE
    /\ lastDeps = [ran |-> FALSE, data |-> EmptyObject]
    /\ typed = NoTyped

\* the window gets the focus back: only the instruments query is stale
WindowFocusWithDeps ==
    /\ ~effectPending
    /\ queries.instruments = "fresh"
    /\ queries' = [queries EXCEPT !.instruments = "stale"]
    /\ UNCHANGED <<store, pc, request, response, earlier, flights, stocksPage,
                    form, briefData, instrumentsData, effectPending, lastDeps, typed>>

NextWithDeps ==
    \/ PrefillEffectWithDeps
    \/ EditField
    \/ ResetButton
    \/ QueryInstruments
    \/ Delay
    \/ HandleInstruments
    \/ ReceiveInstruments
    \/ WindowFocusWithDeps

SpecWithDeps == InitWithDeps /\ [][NextWithDeps]_vars

\* React runs a pending effect, react-query fetches a stale query, the timer
\* of the delay fires and msw runs the handler; the user and the window
\* owe no step.  The steps of the one request exclude one another by pc, so
\* weak fairness of their disjunction is weak fairness of each
SpecWithDepsLive ==
    /\ SpecWithDeps
    /\ WF_vars(PrefillEffectWithDeps)
    /\ WF_vars(QueryInstruments \/ Delay \/ HandleInstruments \/ ReceiveInstruments)

SpecServicesPageLive ==
    /\ SpecServicesPage
    /\ WF_vars(PrefillEffect)
    /\ WF_vars(QueryBrief \/ QueryInstruments \/ Delay \/ HandleBrief
                  \/ HandleInstruments \/ ReceiveBrief \/ ReceiveInstruments)

-----------------------------------------------------------------------------
(* Requests in flight at the same time: each waits in the catch-all handler *)
(* and is then answered by its route handler in one synchronous step.       *)

Slots == 1..MaxInFlight

\* the first handler of the list after the catch-all whose path matches
RouteResponse(stockList, sectorList, bondList, brief, byClass, req) ==
    CASE req.route = "/api/stocks" -> StocksHandler(stockList, sectorList, req.query)
      [] req.route = "/api/bonds" -> BondsHandler(bondList)
      [] req.route = "/api/bonds/:id" -> BondDetailHandler(bondList, req.id)
      [] req.route = "/api/services/brief" -> BriefHandler(brief)
      [] req.route = "/api/services/instruments" -> InstrumentsHandler(byClass, req.query)

\* the requests sent at the same time
ConcurrentRequests ==
    { [route |-> "/api/stocks", query |-> NoQuery, id |-> ""],
      [route |-> "/api/stocks", query |-> "sector" :> "Energy", id |-> ""],
      [route |-> "/api/stocks", query |-> "search" :> "ZeNd" @@ "change" :> "positive", id |-> ""],
      [route |-> "/api/bonds", query |-> NoQuery, id |-> ""],
      [route |-> "/api/bonds/:id", query |-> NoQuery, id |-> "bond-003"],
      [route |-> "/api/bonds/:id", query |-> NoQuery, id |-> "does-not-exist"],
      [route |-> "/api/services/brief", query |-> NoQuery, id |-> ""],
      [route |-> "/api/services/instruments", query |-> "assetClass" :> "equities", id |-> ""] }

InitConcurrent ==
    /\ InitStore
    /\ pc = "idle"
    /\ request = NoRequest
    /\ response = NoResponse
    /\ earlier = NoEarlier
    /\ InitPages
    /\ flights = [i \in Slots |-> NoFlight]

Send(i) ==
    /\ flights[i].pc = "idle"
    /\ \E req \in ConcurrentRequests :
           flights' = [flights EXCEPT ![i] = [pc |-> "delay", request |-> req,
                                              response |-> NoResponse]]
    /\ UNCHANGED <<store, pc, request, response, earlier, pages>>

\* await delay(1000) of request i is over
DelayElapsed(i) ==
    /\ flights[i].pc = "delay"
    /\ flights' = [flights EXCEPT ![i].pc = "route"]
    /\ UNCHANGED <<store, pc, request, response, earlier, pages>>

\* the route handler of request i writing its response into a buffer that
\* the answered requests share
ResolveIntoShared(i) ==
    /\ flights[i].pc = "route"
    /\ flights' = [j \in Slots |->
                      IF j = i \/ flights[j].pc = "done"
                      THEN [pc |-> "done", request |-> flights[j].request,
                            response |->
                                RouteResponse(stocks, sectors, bonds, serviceBrief,
                                              instrumentsByAssetClass, flights[i].request)]
                      ELSE flights[j]]
    /\ UNCHANGED <<store, pc, request, response, earlier, pages>>

\* the route handler of request i runs
Resolve(i) ==
    /\ flights[i].pc = "route"
    /\ flights' = [flights EXCEPT
                      ![i].pc = "done",
                      ![i].response =
                          RouteResponse(stocks, sectors, bonds, serviceBrief,
                                        instrumentsByAssetClass, flights[i].request)]
    /\ stocks' = IF flights[i].request.route = "/api/stocks"
                  THEN StocksAfterFilter(stocks)
                  ELSE stocks
    /\ UNCHANGED <<sectors, bonds, serviceBrief, instrumentsByAssetClass,
                    pc, request, response, earlier, pages>>

\* the caller of request i has read the response
Receive(i) ==
    /\ flights[i].pc = "done"
    /\ flights' = [flights EXCEPT ![i] = NoFlight]
    /\ UNCHANGED <<store, pc, request, response, earlier, pages>>

NextConcurrent ==
    \/ \E i \in Slots : Send(i)
    \/ \E i \in Slots : DelayElapsed(i)
    \/ \E i \in Slots : Resolve(i)
    \/ \E i \in Slots : Receive(i)

SpecConcurrent == InitConcurrent /\ [][NextConcurrent]_vars

-----------------------------------------------------------------------------
(* The second handler list of the source: /api/stocks alone, no catch-all   *)

\* its stocks array: lines 643-1004 repeat lines 33-394 character for character
PlainStocks == StockFixture

\* its sectors
PlainSectors == DeriveSectors(PlainStocks)

\* its handler of http.get('/api/stocks'), the text of the first one
PlainStocksHandler(query) == StocksHandler(PlainStocks, PlainSectors, query)

-----------------------------------------------------------------------------
(* The handler of /api/stocks as a function of any store: the store is      *)
(* drawn from sample records, among them one whose change is exactly 0.     *)

SampleStocks == <<
    [ id |-> "smp-001", ticker |-> "ZERO", company |-> "Zero Drift", sector |-> "Energy",
      price |-> Num("10"), changePercent |-> Num("0"), volume |-> Num("1000"),
      marketCap |-> Num("5000000000"), rating |-> "Hold", lastUpdated |-> "2026-02-11T14:00:00Z" ],
    [ id |-> "smp-002", ticker |-> "UPPR", company |-> "Upper Works", sector |-> "Technology",
      price |-> Num("10.5"), changePercent |-> Num("0.25"), volume |-> Num("2000"),
      marketCap |-> Num("5000000000"), rating |-> "Buy", lastUpdated |-> "2026-02-11T14:01:00Z" ],
    [ id |-> "smp-003", ticker |-> "DOWN", company |-> "Downhill Energy", sector |-> "Energy",
      price |-> Num("9.99"), changePercent |-> Num("-1.5"), volume |-> Num("0"),
      marketCap |-> Num("0"), rating |-> "Sell", lastUpdated |-> "2026-02-11T14:02:00Z" ],
    [ id |-> "smp-004", ticker |-> "NILL", company |-> "Nil Change", sector |-> "Materials",
      price |-> Num("10.5"), changePercent |-> Num("-0.00"), volume |-> Num("10"),
      marketCap |-> Num("70000000000"), rating |-> "Buy", lastUpdated |-> "2026-02-11T14:03:00Z" ]
>>

\* the stores of one to MaxStoreLen distinct sample records, in any order
SampleStores ==
    UNION { { [i \in 1..n |-> SampleStocks[pick[i]]] :
                pick \in {p \in [1..n -> 1..Len(SampleStocks)] :
                            \A i, j \in 1..n : i # j => p[i] # p[j]} }
            : n \in 1..MaxStoreLen }

\* the queries put to a sample store
SampleQueries(stockList) ==
    {q \in SparseQueries : DOMAIN q \subseteq {"change", "sector"}}
        \cup BoundaryQueries(stockList)

InitAnyStore ==
    /\ stocks \in SampleStores
    /\ sectors = DeriveSectors(stocks)
    /\ bonds = BondFixture
    /\ serviceBrief = ServiceBriefFixture
    /\ instrumentsByAssetClass = InstrumentFixture
    /\ pc = "idle"
    /\ request = NoRequest
    /\ response = NoResponse
    /\ earlier = NoEarlier
    /\ InitPages
    /\ flights = <<>>

RequestStocksOfAnyStore ==
    /\ pc = "idle"
    /\ \E q \in SampleQueries(stocks) :
           request' = [route |-> "/api/stocks", query |-> q, id |-> ""]
    /\ pc' = "delay"
    /\ UNCHANGED <<store, response, aside>>

NextAnyStore ==
    \/ RequestStocksOfAnyStore
    \/ Delay
    \/ HandleStocks
    \/ Settle

SpecAnyStore == InitAnyStore /\ [][NextAnyStore]_vars

-----------------------------------------------------------------------------
(* Vocabulary of the properties *)

Range(seq) == {seq[i] : i \in 1..Len(seq)}

StocksAnswered == pc = "done" /\ request.route = "/api/stocks"
BondAnswered == pc = "done" /\ request.route = "/api/bonds/:id"

Has(q, k) == k \in DOMAIN q

BoundNames == {"minPrice", "maxPrice", "minCap", "maxCap"}

\* part occurs in text: at some offset every character of part is matched
Occurs(text, part) ==
    \E off \in 0..Len(text) :
        /\ off + Len(part) <= Len(text)
        /\ \A j \in 1..Len(part) : CharAt(text, off + j) = CharAt(part, j)

\* a bound is in force when its string is non-blank and reads as a number
InForce(q, k) == Has(q, k) /\ trim(q[k]) # "" /\ Number(q[k]).kind = "num"

SatisfiesSearch(q, r) ==
    (Has(q, "search") /\ q["search"] # "")
        => Occurs(toLowerCase(r.ticker \o " " \o r.company), toLowerCase(q["search"]))

SatisfiesSector(q, r) ==
    (Has(q, "sector") /\ q["sector"] # "All") => r.sector = q["sector"]

SatisfiesRating(q, r) ==
    (Has(q, "rating") /\ q["rating"] # "All") => r.rating = q["rating"]

SatisfiesChange(q, r) ==
    /\ (Has(q, "change") /\ q["change"] = "positive") => Compare(r.changePercent, Zero) = 1
    /\ (Has(q, "change") /\ q["change"] = "negative") => Compare(r.changePercent, Zero) = -1

SatisfiesBounds(q, r) ==
    /\ InForce(q, "minPrice") => Compare(r.price, Number(q["minPrice"])) \in {0, 1}
    /\ InForce(q, "maxPrice") => Compare(r.price, Number(q["maxPrice"])) \in {-1, 0}
    /\ InForce(q, "minCap") => Compare(r.marketCap, Number(q["minCap"])) \in {0, 1}
    /\ InForce(q, "maxCap") => Compare(r.marketCap, Number(q["maxCap"])) \in {-1, 0}

SatisfiesAll(q, r) ==
    /\ SatisfiesSearch(q, r)
    /\ SatisfiesSector(q, r)
    /\ SatisfiesRating(q, r)
    /\ SatisfiesChange(q, r)
    /\ SatisfiesBounds(q, r)

\* a parameter that is absent or carries the value that filters nothing
Inactive(q, k) ==
    \/ ~Has(q, k)
    \/ k = "search" /\ q[k] = ""
    \/ k \in {"sector", "rating"} /\ q[k] = "All"
    \/ k = "change" /\ q[k] = "any"
    \/ k \in BoundNames /\ q[k] = ""

\* no parameter outside `names` filters
OnlyActive(q, names) == \A k \in ParamNames \ names : Inactive(q, k)

\* the value of a record a bound is compared with
BoundedValue(r, k) == IF k \in {"minPrice", "maxPrice"} THEN r.price ELSE r.marketCap

\* bound strings that are empty, blank or no number
NotNumbers == {"", " ", "8a", "1.2.3", "x"}

\* the query without one parameter
Without(q, k) == [n \in DOMAIN q \ {k} |-> q[n]]

\* the position of a record of the store
PositionOf(r) == CHOOSE i \in 1..Len(stocks) : stocks[i] = r

-----------------------------------------------------------------------------
(* C1: the data of a /api/stocks response holds only records of the store,  *)
(* and a record of the store is in it exactly when it satisfies every       *)
(* filter the query puts in force (the conjunction of the predicates).      *)
C1_ConjunctionOfFilters ==
    StocksAnswered =>
        /\ Range(response.body.data) \subseteq Range(stocks)
        /\ \A r \in Range(stocks) :
               r \in Range(response.body.data) <=> SatisfiesAll(request.query, r)

\* a query of all eight parameters, three of them excluding records on their
\* own, has been answered with some record kept and some record dropped
C1_Witness ==
    /\ StocksAnswered
    /\ DOMAIN request.query = ParamNames
    /\ request.query["sector"] = "Technology"
    /\ request.query["change"] = "positive"
    /\ request.query["minPrice"] = "84.12"
    /\ response.body.data # <<>>
    /\ \E r \in Range(stocks) :
           /\ r.sector = "Technology"
           /\ r \notin Range(response.body.data)

(* C2: the data of a /api/stocks response is in store order with no record  *)
(* repeated, and holds every matching record: nothing is cut off or paged.  *)
C2_StoreOrderNoPaging ==
    StocksAnswered =>
        LET data == response.body.data
        IN  /\ \A i, j \in 1..Len(data) :
                   i < j => PositionOf(data[i]) < PositionOf(data[j])
            /\ Len(data) = Cardinality({r \in Range(stocks) : SatisfiesAll(request.query, r)})

\* an answer of more than ten records that skips records of the store
\* between two it returns
C2_Witness ==
    /\ StocksAnswered
    /\ Len(response.body.data) >= 11
    /\ \E i \in 1..(Len(response.body.data) - 1) :
           PositionOf(response.body.data[i + 1]) > PositionOf(response.body.data[i]) + 1

(* C3: meta.sectors of every /api/stocks response is the list of the        *)
(* distinct sectors of all 30 records of the store in first-occurrence      *)
(* order, whatever the filters; sector=Energy still yields every sector.    *)
C3_SectorsAreStoreWide ==
    StocksAnswered =>
        LET listed == response.body.meta.sectors
            first(s) == CHOOSE i \in 1..Len(stocks) :
                            /\ stocks[i].sector = s
                            /\ \A j \in 1..(i - 1) : stocks[j].sector # s
        IN  /\ Len(stocks) = 30
            /\ Range(listed) = {stocks[i].sector : i \in 1..Len(stocks)}
            /\ \A i, j \in 1..Len(listed) : i < j => first(listed[i]) < first(listed[j])
            /\ (Has(request.query, "sector") /\ request.query["sector"] = "Energy")
                   => "Technology" \in Range(listed)

\* a query filtered to one sector has been answered
C3_Witness ==
    /\ StocksAnswered
    /\ Has(request.query, "sector")
    /\ request.query["sector"] = "Energy"
    /\ response.body.data # <<>>
    /\ \A i \in 1..Len(response.body.data) : response.body.data[i].sector = "Energy"
    /\ Len(response.body.meta.sectors) > 1

(* C4: meta.total of every /api/stocks response is the number of records    *)
(* of its data list: the count of the filtered result, not of the store.    *)
C4_TotalCountsData ==
    StocksAnswered => response.body.meta.total = Len(response.body.data)

\* an answer that holds some but not all records of the store
C4_Witness ==
    /\ StocksAnswered
    /\ response.body.meta.total > 0
    /\ response.body.meta.total < Len(stocks)

(* C5: with the other filters inactive, a record whose change is exactly 0  *)
(* is left out by change=positive and by change=negative and kept by        *)
(* change=any or no change parameter; a record that rose is kept only by    *)
(* positive, any or none, and one that fell only by negative, any or none.  *)
C5_ZeroChangeIsNeitherDirection ==
    (/\ StocksAnswered
     /\ OnlyActive(request.query, {"change"})
     /\ Has(request.query, "change") => request.query["change"] \in {"positive", "negative", "any"})
    =>
        LET direction == IF Has(request.query, "change") THEN request.query["change"] ELSE "omitted"
        IN  \A r \in Range(stocks) :
                LET sign == Compare(r.changePercent, Zero)
                    kept == r \in Range(response.body.data)
                IN  /\ sign = 0 => (kept <=> direction \in {"any", "omitted"})
                    /\ sign = 1 => (kept <=> direction \in {"positive", "any", "omitted"})
                    /\ sign = -1 => (kept <=> direction \in {"negative", "any", "omitted"})

\* change=positive has been answered over a store that holds a record whose
\* change is 0 and one that rose: the first is left out, the second kept
C5_Witness ==
    /\ StocksAnswered
    /\ request.query = ("change" :> "positive")
    /\ \E r \in Range(stocks) :
           /\ Compare(r.changePercent, Zero) = 0
           /\ r \notin Range(response.body.data)
    /\ \E r \in Range(stocks) :
           /\ Compare(r.changePercent, Zero) = 1
           /\ r \in Range(response.body.data)

(* C6: the price and market-cap bounds are inclusive: a query whose bounds  *)
(* all equal the record's own price or market cap keeps the record, and a   *)
(* query of bounds alone drops a record only when its value is strictly     *)
(* below a minimum or strictly above a maximum.                             *)
C6_BoundsAreInclusive ==
    (StocksAnswered /\ DOMAIN request.query \subseteq BoundNames) =>
        LET q == request.query
        IN  \A r \in Range(stocks) :
                LET kept == r \in Range(response.body.data)
                IN  /\ (/\ q # NoQuery
                        /\ \A k \in DOMAIN q : InForce(q, k) /\ Number(q[k]) = BoundedValue(r, k))
                           => kept
                    /\ ~kept =>
                           \E k \in DOMAIN q :
                               /\ InForce(q, k)
                               /\ \/ k \in {"minPrice", "minCap"}
                                        /\ Compare(BoundedValue(r, k), Number(q[k])) = -1
                                  \/ k \in {"maxPrice", "maxCap"}
                                        /\ Compare(BoundedValue(r, k), Number(q[k])) = 1

\* a query whose only bound is a maximum equal to the price of a record has
\* been answered with that record kept and a dearer record dropped
C6_Witness ==
    /\ StocksAnswered
    /\ DOMAIN request.query = {"maxPrice"}
    /\ \E r \in Range(stocks) :
           /\ request.query["maxPrice"] = NumberToString(r.price)
           /\ r \in Range(response.body.data)
    /\ Len(response.body.data) < Len(stocks)

(* C7: a price or market-cap bound that is empty, blank or no number is the *)
(* same as no bound: the response is a success and equals, data and meta,   *)
(* the response to the same query without that parameter.                   *)
C7_MalformedBoundIsAbsent ==
    StocksAnswered =>
        \A k \in BoundNames \cap DOMAIN request.query :
            request.query[k] \in NotNumbers =>
                /\ response.status = 200
                /\ response = StocksHandler(stocks, sectors, Without(request.query, k))

\* a query with a blank maximum price, an unreadable minimum price and a
\* third parameter that filters has been answered
C7_Witness ==
    /\ StocksAnswered
    /\ Has(request.query, "maxPrice") /\ request.query["maxPrice"] = " "
    /\ Has(request.query, "minPrice") /\ request.query["minPrice"] = "8a"
    /\ response.body.data # <<>>
    /\ Len(response.body.data) < Len(stocks)

(* C8: the search filter keeps a record exactly when the lower-cased search *)
(* string occurs in the lower-cased text  ticker, one space, company; an    *)
(* empty or absent search keeps every record.  "zend" in any letter case    *)
(* finds ZEND (Zendara Software), and so does a search that runs from the   *)
(* end of the ticker over the space into the company name.                  *)
C8_SearchIsCaseInsensitiveSubstring ==
    StocksAnswered =>
        LET q == request.query
            data == response.body.data
            findsZend == \E i \in 1..Len(data) :
                             data[i].ticker = "ZEND" /\ data[i].company = "Zendara Software"
        IN  /\ \A r \in Range(stocks) :
                   /\ r \in Range(data) => SatisfiesSearch(q, r)
                   /\ OnlyActive(q, {"search"}) => (r \in Range(data) <=> SatisfiesSearch(q, r))
            /\ (/\ OnlyActive(q, {"search"})
                /\ Has(q, "search")
                /\ q["search"] \in {"zend", "ZeNd", "ND Ze"}) => findsZend

\* the search "ND Ze" has been answered with the one record ZEND
C8_Witness ==
    /\ StocksAnswered
    /\ request.query = ("search" :> "ND Ze")
    /\ Len(response.body.data) = 1
    /\ response.body.data[1].ticker = "ZEND"

(* C9: the sector and rating filters compare whole strings with regard to   *)
(* letter case: sector=S other than "All" keeps exactly the records whose   *)
(* sector is S, and the same for rating; "All" or no parameter keeps every  *)
(* record; sector=energy and rating=buy match no record.                    *)
C9_SectorAndRatingAreExact ==
    StocksAnswered =>
        LET q == request.query
            data == response.body.data
        IN  /\ \A r \in Range(stocks) :
                   /\ r \in Range(data) => (SatisfiesSector(q, r) /\ SatisfiesRating(q, r))
                   /\ OnlyActive(q, {"sector", "rating"}) =>
                          (r \in Range(data) <=> (SatisfiesSector(q, r) /\ SatisfiesRating(q, r)))
            /\ (Has(q, "sector") /\ q["sector"] = "energy") => data = <<>>
            /\ (Has(q, "rating") /\ q["rating"] = "buy") => data = <<>>

\* sector=energy has been answered with no record though the store holds
\* records of the sector Energy
C9_Witness ==
    /\ StocksAnswered
    /\ request.query = ("sector" :> "energy")
    /\ response.body.data = <<>>
    /\ \E r \in Range(stocks) : r.sector = "Energy"

(* C10: /api/bonds/:id answers with the whole bond record whose id is the   *)
(* requested one when there is such a record, and with 404 and no body      *)
(* otherwise; no part of an id matches: "does-not-exist", "bond-00" and     *)
(* "BOND-001" get 404.                                                      *)
C10_BondDetailExactOrNotFound ==
    BondAnswered =>
        LET found == {i \in 1..Len(bonds) : bonds[i].id = request.id}
        IN  /\ found # {} =>
                   /\ response.status = 200
                   /\ response.hasBody
                   /\ \E i \in found : response.body.data = bonds[i]
            /\ found = {} => (response.status = 404 /\ ~response.hasBody)
            /\ request.id \in {"does-not-exist", "bond-00", "BOND-001"} => response.status = 404

\* the id "bond-00", the start of every id of the store, has been answered 404
C10_Witness ==
    /\ BondAnswered
    /\ request.id = "bond-00"
    /\ response.status = 404
    /\ \A i \in 1..Len(bonds) : SubSeq(bonds[i].id, 1, 7) = "bond-00"

-----------------------------------------------------------------------------
(* Vocabulary of the properties of the other routes *)

BondsAnswered == pc = "done" /\ request.route = "/api/bonds"
BriefAnswered == pc = "done" /\ request.route = "/api/services/brief"
InstrumentsAnswered == pc = "done" /\ request.route = "/api/services/instruments"

\* the four asset-class keys
KnownAssetClasses == {"equities", "fixed-income", "alternatives", "multi-asset"}

\* the request names one of the four asset-class keys
AsksKnownAssetClass ==
    /\ Has(request.query, "assetClass")
    /\ request.query["assetClass"] \in KnownAssetClasses

(* C11: /api/services/instruments never fails and answers with the empty    *)
(* list when the asset-class key is absent, empty or any string other than  *)
(* the four keys, names of built-in object properties included.             *)
C11_UnknownKeyGivesEmptyList ==
    (InstrumentsAnswered /\ ~AsksKnownAssetClass) =>
        /\ response.status = 200
        /\ response.hasBody
        /\ "data" \in DOMAIN response.body
        /\ response.body.data = <<>>

(* C12: for each of the four asset-class keys /api/services/instruments     *)
(* answers with the five instruments of that key in store order; the        *)
(* equities hold inst-eq-003, Emerging Markets Fund, EMMK.                  *)
C12_KnownKeyGivesItsFiveInstruments ==
    (InstrumentsAnswered /\ AsksKnownAssetClass) =>
        LET key == request.query["assetClass"]
        IN  /\ response.status = 200
            /\ "data" \in DOMAIN response.body
            /\ Len(response.body.data) = 5
            /\ response.body.data = instrumentsByAssetClass[key]
            /\ \A i \in 1..5 : response.body.data[i] = InstrumentFixture[key][i]
            /\ key = "equities" =>
                   \E i \in 1..5 :
                       response.body.data[i] =
                           [id |-> "inst-eq-003", name |-> "Emerging Markets Fund", ticker |-> "EMMK"]

\* the key fixed-income has been answered with its own list, not the first
C12_Witness ==
    /\ InstrumentsAnswered
    /\ request.query = ("assetClass" :> "fixed-income")
    /\ Len(response.body.data) = 5
    /\ response.body.data[1].id = "inst-fi-001"
    /\ response.body.data[5].ticker = "MUBF"

(* C13: /api/bonds answers with one summary per bond of the store, in store *)
(* order, each with exactly the fields id, name, issuer and rating of its   *)
(* bond; meta.total is the number of bonds; no request parameter filters.   *)
C13_BondSummariesProjectEveryBond ==
    BondsAnswered =>
        LET data == response.body.data
        IN  /\ response.status = 200
            /\ Len(data) = Len(bonds)
            /\ response.body.meta.total = Len(bonds)
            /\ \A i \in 1..Len(data) :
                   /\ DOMAIN data[i] = {"id", "name", "issuer", "rating"}
                   /\ data[i].id = bonds[i].id
                   /\ data[i].name = bonds[i].name
                   /\ data[i].issuer = bonds[i].issuer
                   /\ data[i].rating = bonds[i].rating

\* a request that carries rating=AA has been answered with all five bonds,
\* among them bonds of another rating
C13_Witness ==
    /\ BondsAnswered
    /\ request.query = ("rating" :> "AA")
    /\ Len(response.body.data) = 5
    /\ \E i \in 1..5 : response.body.data[i].rating # "AA"

(* C14: the only error any route answers with is 404, and only              *)
(* /api/bonds/:id does, for an id of no bond; every other route answers     *)
(* with a success whatever its parameters, and /api/services/brief with     *)
(* the one stored brief, its ten fields unchanged.                          *)
C14_OnlyBondDetailFails ==
    pc = "done" =>
        /\ response.status \in {200, 404}
        /\ response.status = 404 =>
               /\ request.route = "/api/bonds/:id"
               /\ \A i \in 1..Len(bonds) : bonds[i].id # request.id
        /\ request.route # "/api/bonds/:id" => (response.status = 200 /\ response.hasBody)
        /\ request.route = "/api/services/brief" =>
               /\ response.body.data = ServiceBriefFixture
               /\ Cardinality(DOMAIN response.body.data) = 10

\* an asset-class key of no list has been answered with a success
C14_Witness ==
    /\ InstrumentsAnswered
    /\ request.query = ("assetClass" :> "not-a-class")
    /\ response.status = 200
    /\ response.body.data = <<>>

(* C15: whatever requests have been served, the stock, bond, service-brief  *)
(* and instrument collections and the derived sector list are what they     *)
(* were when the module loaded: no handler writes to the store.             *)
C15_StoreIsNeverWritten ==
    /\ stocks = StockFixture
    /\ bonds = BondFixture
    /\ serviceBrief = ServiceBriefFixture
    /\ instrumentsByAssetClass = InstrumentFixture
    /\ sectors = DeriveSectors(StockFixture)

\* a stock query that drops records has been answered and the store still
\* holds all thirty
C15_Witness ==
    /\ StocksAnswered
    /\ Len(response.body.data) < 30
    /\ Len(stocks) = 30
    /\ stocks[1].id = "stk-001"

(* C20: /api/bonds/bond-003 answers with the record Solara Grid 2040,       *)
(* rating A, currency USD, nextCall 2035-11-30; /api/bonds/bond-002 with a  *)
(* record whose nextCall is null.                                           *)
C20_BondDetailFixtureValues ==
    BondAnswered =>
        /\ request.id = "bond-003" =>
               /\ response.status = 200
               /\ response.body.data.name = "Solara Grid 2040"
               /\ response.body.data.rating = "A"
               /\ response.body.data.currency = "USD"
               /\ response.body.data.nextCall = Str("2035-11-30")
        /\ request.id = "bond-002" =>
               /\ response.status = 200
               /\ response.body.data.id = "bond-002"
               /\ response.body.data.nextCall = Null

\* bond-002 has been answered with a record that has no call date
C20_Witness ==
    /\ BondAnswered
    /\ request.id = "bond-002"
    /\ response.status = 200
    /\ response.body.data.nextCall.null

-----------------------------------------------------------------------------
(* C16: a /api/stocks query asked again, whatever was asked in between,     *)
(* is answered with the same data in the same order and the same meta.      *)
C16_SameQuerySameResponse ==
    (StocksAnswered /\ earlier.request = request) => response = earlier.response

\* a query that drops records has been answered again after its first
\* answer was kept and another request was served in between
C16_Witness ==
    /\ StocksAnswered
    /\ earlier.request = request
    /\ earlier.between >= 2
    /\ Len(response.body.data) >= 2
    /\ Len(response.body.data) < Len(stocks)

(* C17: with several requests in flight and their waits and handler steps   *)
(* interleaved in any order, every response is the one the request gets     *)
(* when it is the only request.                                             *)
C17_ConcurrentRequestsAreIndependent ==
    \A i \in DOMAIN flights :
        flights[i].pc = "done" =>
            flights[i].response =
                RouteResponse(StockFixture, DeriveSectors(StockFixture), BondFixture,
                              ServiceBriefFixture, InstrumentFixture, flights[i].request)

\* two stock queries were in flight together and both are answered
C17_Witness ==
    \E i, j \in DOMAIN flights :
        /\ i # j
        /\ flights[i].pc = "done"
        /\ flights[j].pc = "done"
        /\ flights[i].request.route = "/api/stocks"
        /\ flights[j].request.route = "/api/stocks"
        /\ flights[i].request # flights[j].request
        /\ Len(flights[i].response.body.data) > Len(flights[j].response.body.data)

(* C18: the wait changes no response: what a request gets from the handler  *)
(* list that starts with the catch-all wait is what the route handlers      *)
(* give without it, and for /api/stocks it is, data and meta, what the      *)
(* handler of the list without the wait gives.                              *)
C18_DelayChangesNoResponse ==
    pc = "done" =>
        /\ response = RouteResponse(stocks, sectors, bonds, serviceBrief,
                                    instrumentsByAssetClass, request)
        /\ request.route = "/api/stocks" =>
               /\ response.body.data = PlainStocksHandler(request.query).body.data
               /\ response.body.meta = PlainStocksHandler(request.query).body.meta

\* a stock query of several filters has been answered after the wait
C18_Witness ==
    /\ StocksAnswered
    /\ Cardinality(DOMAIN request.query) = 3
    /\ Len(response.body.data) >= 2
    /\ response = PlainStocksHandler(request.query)

(* C19: every request is answered in the end: the wait is over, then the    *)
(* handler of its route answers; until then there is no response, so the    *)
(* catch-all never answers by itself.                                       *)
C19_EveryRequestIsAnswered ==
    /\ (pc = "delay") ~> (pc = "done" /\ response.status # 0)
    /\ [](pc \in {"delay", "route"} => response = NoResponse)

\* the brief has been asked for and answered
C19_Witness ==
    /\ BriefAnswered
    /\ response.status = 200
    /\ response.body.data.clientName = "Alexandra Chen"

-----------------------------------------------------------------------------
(* Vocabulary of the properties of the collections *)

\* no two positions of the array hold the same value of the field
UniqueIn(list, field) ==
    \A i, j \in 1..Len(list) : list[i][field] = list[j][field] => i = j

\* the string is spelled in upper-case letters only
IsUpperCase(s) ==
    \A i \in 1..Len(s) : CharAt(s, i) \in DOMAIN UpperCaseLetters

\* the instruments of all asset classes
AllInstruments ==
    UNION {Range(instrumentsByAssetClass[k]) : k \in DOMAIN instrumentsByAssetClass}

\* the number of instruments of all asset classes
InstrumentCount ==
    LET RECURSIVE Sum(_)
        Sum(ks) == IF ks = {} THEN 0
                   ELSE LET k == CHOOSE x \in ks : TRUE
                        IN  Len(instrumentsByAssetClass[k]) + Sum(ks \ {k})
    IN  Sum(DOMAIN instrumentsByAssetClass)

\* the fields of the service brief
BriefFields ==
    {"clientName", "email", "firm", "portfolioSize", "mandateType", "riskProfile",
     "investmentHorizon", "assetClass", "instrument", "notes"}

(* C21: in the store identifiers are unique within stocks, within bonds and *)
(* within instruments; stock tickers are unique and upper-case; a stock     *)
(* rating is Buy, Hold or Sell; prices are positive, volumes and market     *)
(* capitalizations are not negative; the service brief is one record.       *)
C21_StoreIsWellFormed ==
    /\ UniqueIn(stocks, "id")
    /\ UniqueIn(stocks, "ticker")
    /\ UniqueIn(bonds, "id")
    /\ Cardinality({x.id : x \in AllInstruments}) = InstrumentCount
    /\ \A i \in 1..Len(stocks) :
          /\ stocks[i].ticker # ""
          /\ IsUpperCase(stocks[i].ticker)
          /\ stocks[i].rating \in {"Buy", "Hold", "Sell"}
          /\ Greater(stocks[i].price, Zero)
          /\ GreaterEq(stocks[i].volume, Zero)
          /\ GreaterEq(stocks[i].marketCap, Zero)
    /\ DOMAIN serviceBrief = BriefFields

\* the loaded store of thirty stocks, five bonds and twenty instruments has
\* served a request for all stocks
C21_Witness ==
    /\ StocksAnswered
    /\ Len(stocks) = 30
    /\ Len(bonds) = 5
    /\ InstrumentCount = 20
    /\ Cardinality({response.body.data[i].ticker : i \in 1..Len(response.body.data)}) = 30

(* C22: the bond of every summary that /api/bonds lists is found by         *)
(* /api/bonds/:id under the summary's id, with the id, name, issuer and     *)
(* rating of the summary; and every id that /api/bonds/:id finds is the id  *)
(* of a summary that /api/bonds lists.                                      *)
C22_SummariesAndDetailsAgree ==
    /\ BondsAnswered =>
           \A i \in 1..Len(response.body.data) :
               LET s == response.body.data[i]
                   detail == BondDetailHandler(bonds, s.id)
               IN  /\ detail.status = 200
                   /\ detail.body.data.id = s.id
                   /\ detail.body.data.name = s.name
                   /\ detail.body.data.issuer = s.issuer
                   /\ detail.body.data.rating = s.rating
    /\ (BondAnswered /\ response.status = 200) =>
           \E s \in Range(BondsHandler(bonds).body.data) :
               /\ s.id = request.id
               /\ s.name = response.body.data.name
               /\ s.issuer = response.body.data.issuer
               /\ s.rating = response.body.data.rating

\* the list of five summaries has been answered, and the detail under the
\* id of its second summary is a bond that has no call date
C22_Witness ==
    /\ BondsAnswered
    /\ Len(response.body.data) = 5
    /\ BondDetailHandler(bonds, response.body.data[2].id).body.data.nextCall = Null
    /\ BondDetailHandler(bonds, response.body.data[2].id).body.data.name
           = response.body.data[2].name

-----------------------------------------------------------------------------
(* Vocabulary of the composition of filters *)

\* the query cut down to the parameters `names`
Restrict(q, names) == [n \in names |-> q[n]]

\* the data /api/stocks answers the query with
DataOf(q) == StocksHandler(stocks, sectors, q).body.data

\* the records of the sequence `list` that occur in `kept`, in the order of `list`
Keeping(list, kept) == SelectSeq(list, LAMBDA r : r \in Range(kept))

(* C23: the filters compose as an intersection: whenever the parameters of  *)
(* a query are split into two queries, the data of the whole query are the  *)
(* records of the store, in store order, that both part queries return;     *)
(* so a query with one parameter more returns no record the query without   *)
(* it does not return, and keeps the order of those it returns.             *)
C23_FiltersComposeAsIntersection ==
    StocksAnswered =>
        LET q == request.query
            data == response.body.data
        IN  /\ \A names \in SUBSET DOMAIN q :
                   LET F == DataOf(Restrict(q, names))
                       G == DataOf(Restrict(q, DOMAIN q \ names))
                   IN  data = SelectSeq(stocks,
                                        LAMBDA r : r \in Range(F) /\ r \in Range(G))
            /\ \A k \in DOMAIN q :
                   /\ Range(data) \subseteq Range(DataOf(Without(q, k)))
                   /\ data = Keeping(DataOf(Without(q, k)), data)

\* a search and a rating, each of which alone returns records the other
\* drops, have been answered together with at least two records
C23_Witness ==
    /\ StocksAnswered
    /\ DOMAIN request.query = {"search", "rating"}
    /\ LET F == DataOf(Restrict(request.query, {"search"}))
           G == DataOf(Restrict(request.query, {"rating"}))
       IN  /\ Range(F) \ Range(G) # {}
           /\ Range(G) \ Range(F) # {}
           /\ Len(response.body.data) >= 2
           /\ Len(response.body.data) < Len(F)

-----------------------------------------------------------------------------
(* Vocabulary of contradictory bounds *)

\* both bounds are numbers and the lower one is the greater
Contradictory(q, lo, hi) ==
    /\ InForce(q, lo)
    /\ InForce(q, hi)
    /\ Greater(Number(q[lo]), Number(q[hi]))

\* the query with the values of two parameters exchanged
Exchanged(q, lo, hi) == [q EXCEPT ![lo] = q[hi], ![hi] = q[lo]]

(* C24: a query whose minPrice is greater than its maxPrice, or whose       *)
(* minCap is greater than its maxCap, both of them numbers, is answered     *)
(* with status 200, no record, total 0 and the sectors of the whole store.  *)
C24_ContradictoryBoundsGiveEmptyList ==
    (/\ StocksAnswered
     /\ \/ Contradictory(request.query, "minPrice", "maxPrice")
        \/ Contradictory(request.query, "minCap", "maxCap")) =>
        /\ response.status = 200
        /\ response.hasBody
        /\ response.body.data = <<>>
        /\ response.body.meta.total = 0
        /\ response.body.meta.sectors = DeriveSectors(stocks)

\* a minPrice above the maxPrice has been answered with no record, while
\* the same two numbers in order return records
C24_Witness ==
    /\ StocksAnswered
    /\ DOMAIN request.query = {"minPrice", "maxPrice"}
    /\ Contradictory(request.query, "minPrice", "maxPrice")
    /\ response.body.data = <<>>
    /\ Len(response.body.meta.sectors) > 1
    /\ Len(DataOf(Exchanged(request.query, "minPrice", "maxPrice"))) >= 2

(* C25: a sector or a rating that is present and empty filters: the query   *)
(* is answered with status 200, no record and total 0, no record of the     *)
(* store having an empty sector or rating.                                  *)
C25_EmptySectorOrRatingFilters ==
    (/\ StocksAnswered
     /\ \/ (Has(request.query, "sector") /\ request.query["sector"] = "")
        \/ (Has(request.query, "rating") /\ request.query["rating"] = "")) =>
        /\ response.status = 200
        /\ response.body.data = <<>>
        /\ response.body.meta.total = 0
        /\ \A i \in 1..Len(stocks) : stocks[i].sector # "" /\ stocks[i].rating # ""

\* an empty rating alone has been answered with no record, while an empty
\* minPrice alone returns the whole store
C25_Witness ==
    /\ StocksAnswered
    /\ request.query = ("rating" :> "")
    /\ response.body.data = <<>>
    /\ response.body.meta.total = 0
    /\ DataOf("minPrice" :> "") = stocks
    /\ DataOf("sector" :> "") = <<>>

(* C26: a change parameter that is neither positive nor negative filters    *)
(* nothing: the query is answered with status 200 and with the data and     *)
(* meta of the same query with change=any.                                  *)
C26_UnknownChangeIsAny ==
    (/\ StocksAnswered
     /\ Has(request.query, "change")
     /\ request.query["change"] \notin {"positive", "negative"}) =>
        /\ response.status = 200
        /\ response = StocksHandler(stocks, sectors,
                                    [request.query EXCEPT !["change"] = "any"])

\* change=Positive has been answered with records of falling and of rising
\* price, which change=positive does not return together
C26_Witness ==
    /\ StocksAnswered
    /\ request.query = ("change" :> "Positive")
    /\ \E r \in Range(response.body.data) : Less(r.changePercent, Zero)
    /\ \E r \in Range(response.body.data) : Greater(r.changePercent, Zero)
    /\ \A r \in Range(DataOf("change" :> "positive")) : Greater(r.changePercent, Zero)
    /\ DataOf("change" :> "") = response.body.data

-----------------------------------------------------------------------------
(* Vocabulary of the filters of the stocks page *)

\* what a filter of the page that differs from its default asks of a record
FieldAccepts(k, v, r) ==
    CASE k = "search" ->
             Occurs(toLowerCase(r.ticker \o " " \o r.company), toLowerCase(v))
      [] k = "sector" -> r.sector = v
      [] k = "rating" -> r.rating = v
      [] k = "change" -> IF v = "positive" THEN Greater(r.changePercent, Zero)
                         ELSE Less(r.changePercent, Zero)
      [] k = "minPrice" -> GreaterEq(r.price, Number(v))
      [] k = "maxPrice" -> LessEq(r.price, Number(v))
      [] k = "minCap" -> GreaterEq(r.marketCap, Number(v))
      [] k = "maxCap" -> LessEq(r.marketCap, Number(v))

\* the page's query has been answered
PageAnswered == StocksAnswered /\ queryKey # NoKey

(* C27: the page sends a parameter for a filter exactly when the filter     *)
(* differs from its default, with the filter's value; the handler answers   *)
(* with the records of the store, in store order, that meet every filter    *)
(* that differs from its default; with the default filters nothing is sent  *)
(* and all thirty stocks are returned in store order.                       *)
C27_PageAndHandlerAgreeOnFilters ==
    (request.route = "/api/stocks" /\ queryKey # NoKey) =>
        /\ DOMAIN request.query = Edited(queryKey)
        /\ \A k \in DOMAIN request.query : request.query[k] = queryKey[k]
        /\ PageAnswered =>
               /\ response.status = 200
               /\ response.body.data =
                      SelectSeq(stocks, LAMBDA r :
                          \A k \in Edited(queryKey) : FieldAccepts(k, queryKey[k], r))
               /\ queryKey = defaultFilters =>
                      /\ request.query = NoQuery
                      /\ response.body.data = stocks
                      /\ Len(response.body.data) = 30

\* a search and a maximum price of the form have been answered together with
\* fewer records than either returns alone
C27_Witness ==
    /\ PageAnswered
    /\ Edited(queryKey) = {"search", "maxPrice"}
    /\ DOMAIN request.query = {"search", "maxPrice"}
    /\ Len(response.body.data) >= 2
    /\ Len(response.body.data) < Len(DataOf("search" :> queryKey.search))
    /\ Len(response.body.data) < Len(DataOf("maxPrice" :> queryKey.maxPrice))

-----------------------------------------------------------------------------
(* Vocabulary of the services page *)

\* the instrument options the page shows: instrumentsQuery.data?.data ?? []
InstrumentsShown == instrumentsData.data

\* the asset class c is the one selected in the form
Selected(c) == form.values.assetClass = Str(c)

(* C28: once an asset class is selected in the form, the instrument options *)
(* shown are eventually the instruments of the selected asset class, unless *)
(* the selection has changed meanwhile.                                     *)
C28_InstrumentsFollowTheSelection ==
    \A c \in KnownAssetClasses :
        Selected(c) ~> (~Selected(c)
                        \/ (instrumentsData.loaded
                            /\ InstrumentsShown = instrumentsByAssetClass[c]))

(* C29: the value the user entered last into a field of the form stays the  *)
(* value of the field until the user edits again, presses Reset or new      *)
(* brief data arrive.                                                       *)
C29_UserInputIsRetained ==
    typed # NoTyped => form.values[typed.field] = Str(typed.value)

====
